---- MODULE Spec2Model ----
(***************************************************************************)
(* A model of go-redis-server: the keyspace (storage.Storage, a sync.Map   *)
(* from key to string / *list.List / Go map), the command layer            *)
(* (CommandRegistry.ParseCommand, the New<X>Command validators and the     *)
(* Command.Apply methods), the RESP codec (resp.ReadResp, resp.WriteResp)  *)
(* and the connection loop (network.Start, handleConnection).              *)
(*                                                                         *)
(* Byte strings are sequences of one-character strings, so that parsing,   *)
(* formatting and upper-casing are computed and not assumed.  Go lists and *)
(* maps are reference values: the keyspace holds a reference into `heap`,  *)
(* and a goroutine that loaded a reference keeps using the same object     *)
(* whatever happens to the key meanwhile.                                  *)
(***************************************************************************)
EXTENDS Integers, Sequences, FiniteSets, TLC

VARIABLES
    data,      \* Storage.data: key -> entry (absent, a string, or a reference)
    heap,      \* the Go heap: object id -> list / hash / set / zset object
    crashed,   \* the process died of an unrecovered panic
    req,       \* Spec: the request the loop iteration decoded (respValue)
    reply,     \* Spec: the reply the iteration wrote (result)
    conn,      \* Spec: "open" while handleConnection runs, "closed" once it returned
    thr,       \* SpecConc: per-connection position inside the Storage method it runs
    net        \* SpecWire: per-connection socket, bufio.Reader and bufio.Writer

vars == <<data, heap, crashed, req, reply, conn, thr, net>>

(***************************************************************************)
(* Bounds of the model.                                                    *)
(***************************************************************************)
NumKeys == 2      \* keys the clients use
MaxLen  == 2      \* pushes are enabled while a list is shorter than this
IntBits == 3      \* width of the integer type standing for int64
MaxObj  == 3      \* heap objects alive at once
MaxScore == 2     \* ZADD / ZINCRBY are enabled while scores stay within +-MaxScore
NumConns == 2     \* SpecConc: connections served at the same time
IntSize == 5      \* width of the integer type standing for Go's int

(***************************************************************************)
(* Byte strings.                                                           *)
(***************************************************************************)
Lower == <<"a","b","c","d","e","f","g","h","i","j","k","l","m",
           "n","o","p","q","r","s","t","u","v","w","x","y","z">>
Upper == <<"A","B","C","D","E","F","G","H","I","J","K","L","M",
           "N","O","P","Q","R","S","T","U","V","W","X","Y","Z">>
Digits == <<"0","1","2","3","4","5","6","7","8","9">>

\* strings.ToUpper
ToUpper(s) ==
    [i \in 1..Len(s) |->
        IF \E j \in 1..26 : Lower[j] = s[i]
        THEN Upper[CHOOSE j \in 1..26 : Lower[j] = s[i]]
        ELSE s[i]]

IsDigit(c) == \E j \in 1..10 : Digits[j] = c
DigitVal(c) == (CHOOSE j \in 1..10 : Digits[j] = c) - 1

MinInt64 == -(2 ^ (IntBits - 1))
MaxInt64 == (2 ^ (IntBits - 1)) - 1

\* two's-complement wrap of Go's int64 arithmetic
Wrap(n) == ((n - MinInt64) % (2 ^ IntBits)) + MinInt64

RECURSIVE ParseUint(_)
ParseUint(s) ==
    IF s = <<>> THEN 0
    ELSE 10 * ParseUint(SubSeq(s, 1, Len(s) - 1)) + DigitVal(s[Len(s)])

\* strconv.ParseInt(s, 10, 64): optional sign, then one or more decimal digits,
\* and the value must fit the integer type.
ParseInt(s) ==
    LET signed == s # <<>> /\ s[1] \in {"+", "-"}
        body   == IF signed THEN Tail(s) ELSE s
    IN  IF body = <<>> \/ \E i \in 1..Len(body) : ~IsDigit(body[i])
        THEN [ok |-> FALSE, n |-> 0]
        ELSE LET v == IF s[1] = "-" THEN -ParseUint(body) ELSE ParseUint(body)
             IN  IF v < MinInt64 \/ v > MaxInt64
                 THEN [ok |-> FALSE, n |-> 0]
                 ELSE [ok |-> TRUE, n |-> v]

RECURSIVE FormatUint(_)
FormatUint(n) ==
    IF n < 10 THEN <<Digits[n + 1]>>
    ELSE FormatUint(n \div 10) \o <<Digits[(n % 10) + 1]>>

\* strconv.FormatInt(n, 10)
FormatInt(n) == IF n < 0 THEN <<"-">> \o FormatUint(-n) ELSE FormatUint(n)

(***************************************************************************)
(* RESP values (resp.RespValue).                                           *)
(***************************************************************************)
String  == "+"
Error   == "-"
Integer == ":"
Bulk    == "$"
Array   == "*"

NewString(s)  == [Type |-> String,  Str |-> s,    Num |-> 0, Array |-> <<>>]
NewError(s)   == [Type |-> Error,   Str |-> s,    Num |-> 0, Array |-> <<>>]
NewInteger(i) == [Type |-> Integer, Str |-> <<>>, Num |-> i, Array |-> <<>>]
NewBulk(s)    == [Type |-> Bulk,    Str |-> s,    Num |-> 0, Array |-> <<>>]
NewArray(a)   == [Type |-> Array,   Str |-> <<>>, Num |-> 0, Array |-> a]

\* The messages of the program, each one chunk of text.
WrongType   == <<"WRONGTYPE Operation against a key holding the wrong kind of value">>
NotInteger  == <<"value is not an integer or out of range">>
ErrNotInt   == <<"ERR value is not an integer or out of range">>
ErrFormat   == <<"ERR invalid command format">>
ErrSyntax   == <<"ERR syntax error">>
ErrIndex    == <<"ERR index out of range">>
ErrNoKey    == <<"ERR no such key">>
ErrArity(n) == <<"ERR wrong number of arguments for '", n, "' command">>
OK   == <<"O","K">>
PONG == <<"P","O","N","G">>

(***************************************************************************)
(* The RESP codec: ReadResp and WriteResp on byte strings.  The reader is   *)
(* given the bytes the client sent and not yet consumed; past their end the *)
(* stream is at EOF.                                                        *)
(***************************************************************************)
CR == "\r"
LF == "\n"
CRLF == <<CR, LF>>

MinInt == -(2 ^ (IntSize - 1))
MaxInt == (2 ^ (IntSize - 1)) - 1

\* strconv.Atoi: as ParseInt, into Go's int.
Atoi(s) ==
    LET signed == s # <<>> /\ s[1] \in {"+", "-"}
        body   == IF signed THEN Tail(s) ELSE s
    IN  IF body = <<>> \/ \E i \in 1..Len(body) : ~IsDigit(body[i])
        THEN [ok |-> FALSE, n |-> 0]
        ELSE LET v == IF s[1] = "-" THEN -ParseUint(body) ELSE ParseUint(body)
             IN  IF v < MinInt \/ v > MaxInt
                 THEN [ok |-> FALSE, n |-> 0]
                 ELSE [ok |-> TRUE, n |-> v]

\* Outcomes of a read: a value and the bytes left, an error, or a panic.
Decoded(v, rest) == [kind |-> "value", val |-> v, rest |-> rest]
ReadError == [kind |-> "error", val |-> 0, rest |-> <<>>]
ReadPanic == [kind |-> "panic", val |-> 0, rest |-> <<>>]

\* readLine: ReadString('\n') returns the bytes up to and including the first
\* LF, or an error at EOF; line[:len(line)-2] then drops the last two bytes,
\* whatever they are, and panics on a line of one byte.
readLine(b) ==
    IF \A i \in 1..Len(b) : b[i] # LF THEN ReadError
    ELSE LET n == CHOOSE i \in 1..Len(b) : b[i] = LF /\ \A j \in 1..(i - 1) : b[j] # LF
         IN  IF n < 2 THEN ReadPanic
             ELSE Decoded(SubSeq(b, 1, n - 2), SubSeq(b, n + 1, Len(b)))

\* readInteger: the line must be a decimal int64.
readInteger(line) ==
    IF line.kind # "value" THEN line
    ELSE IF ~ParseInt(line.val).ok THEN ReadError
    ELSE Decoded(NewInteger(ParseInt(line.val).n), line.rest)

\* readBulkString after its length line: -1 is the null bulk string, returned
\* as NewBulk(""); make([]byte, length) panics on any other negative length;
\* io.ReadFull needs length bytes, and two more bytes are read and dropped.
readBulkString(line) ==
    IF line.kind # "value" THEN line
    ELSE IF ~Atoi(line.val).ok THEN ReadError
    ELSE IF Atoi(line.val).n = -1 THEN Decoded(NewBulk(<<>>), line.rest)
    ELSE IF Atoi(line.val).n < 0 THEN ReadPanic
    ELSE IF Len(line.rest) < Atoi(line.val).n + 2 THEN ReadError
    ELSE Decoded(NewBulk(SubSeq(line.rest, 1, Atoi(line.val).n)),
                 SubSeq(line.rest, Atoi(line.val).n + 3, Len(line.rest)))

RECURSIVE ReadResp(_)
RECURSIVE readElements(_, _, _)

\* readArray after its length line: -1 is the null array, NewArray(nil), whose
\* length is 0; make([]RespValue, length) panics on any other negative length.
readArray(line) ==
    IF line.kind # "value" THEN line
    ELSE IF ~Atoi(line.val).ok THEN ReadError
    ELSE IF Atoi(line.val).n = -1 THEN Decoded(NewArray(<<>>), line.rest)
    ELSE IF Atoi(line.val).n < 0 THEN ReadPanic
    ELSE readElements(line.rest, Atoi(line.val).n, <<>>)

\* The loop of readArray: n more elements to read after arr.
readElements(b, n, arr) ==
    IF n = 0 THEN Decoded(NewArray(arr), b)
    ELSE IF ReadResp(b).kind # "value" THEN ReadResp(b)
    ELSE readElements(ReadResp(b).rest, n - 1, Append(arr, ReadResp(b).val))

\* readSimpleString and readError: the line is the text.
readSimpleString(line) ==
    IF line.kind # "value" THEN line ELSE Decoded(NewString(line.val), line.rest)

readError(line) ==
    IF line.kind # "value" THEN line ELSE Decoded(NewError(line.val), line.rest)

ReadResp(b) ==
    IF b = <<>> THEN ReadError
    ELSE CASE b[1] = String  -> readSimpleString(readLine(Tail(b)))
           [] b[1] = Error   -> readError(readLine(Tail(b)))
           [] b[1] = Integer -> readInteger(readLine(Tail(b)))
           [] b[1] = Bulk    -> readBulkString(readLine(Tail(b)))
           [] b[1] = Array   -> readArray(readLine(Tail(b)))
           [] OTHER          -> ReadError

\* The concatenation of the byte strings of a sequence.
RECURSIVE Concat(_)
Concat(ss) == IF ss = <<>> THEN <<>> ELSE Head(ss) \o Concat(Tail(ss))

\* WriteResp: the bytes written for val, or an error for a value of no type.
RECURSIVE WriteResp(_)
WriteResp(val) ==
    CASE val.Type = String  -> [err |-> FALSE, out |-> <<String>> \o val.Str \o CRLF]
      [] val.Type = Error   -> [err |-> FALSE, out |-> <<Error>> \o val.Str \o CRLF]
      [] val.Type = Integer -> [err |-> FALSE, out |-> <<Integer>> \o FormatInt(val.Num) \o CRLF]
      [] val.Type = Bulk    ->
             [err |-> FALSE,
              out |-> <<Bulk>> \o FormatInt(Len(val.Str)) \o CRLF \o val.Str \o CRLF]
      [] val.Type = Array   ->
             [err |-> \E i \in 1..Len(val.Array) : WriteResp(val.Array[i]).err,
              out |-> <<Array>> \o FormatInt(Len(val.Array)) \o CRLF
                      \o Concat([i \in 1..Len(val.Array) |-> WriteResp(val.Array[i]).out])]
      [] OTHER              -> [err |-> TRUE, out |-> <<>>]

(***************************************************************************)
(* The keyspace and the heap.                                              *)
(***************************************************************************)
KeyNames == <<<<"k">>, <<"j">>, <<"i">>>>
Keys == {KeyNames[i] : i \in 1..NumKeys}
ObjIds == 1..MaxObj

NoEntry      == [t |-> "none"]
StrEntry(s)  == [t |-> "str", s |-> s]
RefEntry(id) == [t |-> "ref", id |-> id]

Free        == [t |-> "free"]
ListObj(l)  == [t |-> "list", l |-> l]
HashObj(f)  == [t |-> "hash", h |-> f]
SetObj(m)   == [t |-> "set",  m |-> m]
ZSetObj(z)  == [t |-> "zset", z |-> z]

\* The dynamic type of the value stored under key ("none" when absent).
Shape(d, h, key) ==
    IF d[key].t = "ref" THEN h[d[key].id].t ELSE d[key].t

\* The object a stored reference points to.
Deref(d, h, key) == h[d[key].id]

\* An unused object id for a new allocation.
NewId(h) == CHOOSE id \in ObjIds : h[id].t = "free" /\ \A j \in ObjIds : h[j].t = "free" => id <= j

\* The garbage collector: objects no key and no goroutine refers to are freed.
Sweep(d, h, roots) ==
    [id \in ObjIds |->
        IF id \in roots \/ \E k \in Keys : d[k] = RefEntry(id) THEN h[id] ELSE Free]

\* Outcomes of a storage call: a value, an error, or a panic.
Ret(d, h, v)   == [d |-> d, h |-> h, ret |-> v, err |-> <<>>, panic |-> FALSE]
Fail(d, h, m)  == [d |-> d, h |-> h, ret |-> 0, err |-> m,    panic |-> FALSE]
Panic(d, h)    == [d |-> d, h |-> h, ret |-> 0, err |-> <<>>, panic |-> TRUE]

\* A faulty LoadOrStore: the new object is stored over what the key holds.
LoadOrStoreOver(d, h, key, obj) ==
    LET id == NewId(h)
    IN  [d |-> [d EXCEPT ![key] = RefEntry(id)], h |-> [h EXCEPT ![id] = obj]]

\* sync.Map.LoadOrStore(key, <a new object>): stores only when the key is absent.
LoadOrStore(d, h, key, obj) ==
    IF d[key].t = "none"
    THEN LET id == NewId(h)
         IN  [d |-> [d EXCEPT ![key] = RefEntry(id)], h |-> [h EXCEPT ![id] = obj]]
    ELSE [d |-> d, h |-> h]

\* A faulty Delete: the entry stays in the map.
DeleteNothing(d, key) == d

\* sync.Map.Delete(key)
Delete(d, key) == [d EXCEPT ![key] = NoEntry]

\* A faulty LoadAndDelete: it reports an entry also when the key was absent.
LoadAndDeleteBlind(d, key) == [d |-> Delete(d, key), loaded |-> TRUE]

\* sync.Map.LoadAndDelete(key): removes the entry and reports whether there was one.
LoadAndDelete(d, key) == [d |-> Delete(d, key), loaded |-> d[key].t # "none"]

(***************************************************************************)
(* Storage: strings.                                                       *)
(***************************************************************************)
Set(d, h, key, value) == Ret([d EXCEPT ![key] = StrEntry(value)], h, 0)

\* The value is asserted to be a string unless it is a *list.List: the
\* unchecked assertion val.(string) panics on a hash, a set or a sorted set.
Get(d, h, key) ==
    IF d[key].t = "none" THEN Ret(d, h, [val |-> <<>>, ok |-> FALSE])
    ELSE IF Shape(d, h, key) = "list" THEN Ret(d, h, [val |-> <<>>, ok |-> FALSE])
    ELSE IF d[key].t = "str" THEN Ret(d, h, [val |-> d[key].s, ok |-> TRUE])
    ELSE Panic(d, h)

\* A faulty Del: every named key is counted, whether it was loaded or not.
RECURSIVE DelCountingAll(_, _, _)
DelCountingAll(d, h, keys) ==
    IF keys = <<>> THEN Ret(d, h, 0)
    ELSE Ret(DelCountingAll(Delete(d, Head(keys)), h, Tail(keys)).d, h,
             DelCountingAll(Delete(d, Head(keys)), h, Tail(keys)).ret + 1)

RECURSIVE Del(_, _, _)
Del(d, h, keys) ==
    IF keys = <<>> THEN Ret(d, h, 0)
    ELSE LET loaded == d[Head(keys)].t # "none"
             rest   == Del(Delete(d, Head(keys)), h, Tail(keys))
         IN  Ret(rest.d, h, rest.ret + (IF loaded THEN 1 ELSE 0))

RECURSIVE Exists(_, _, _)
Exists(d, h, keys) ==
    IF keys = <<>> THEN Ret(d, h, 0)
    ELSE Ret(d, h, Exists(d, h, Tail(keys)).ret + (IF d[Head(keys)].t # "none" THEN 1 ELSE 0))

\* Incr and Decr share their shape: Get, ParseInt, num++ / num--, Set.
AddTo(d, h, key, delta) ==
    LET g == Get(d, h, key)
    IN  IF g.panic THEN Panic(d, h)
        ELSE LET p == IF g.ret.ok THEN ParseInt(g.ret.val) ELSE [ok |-> TRUE, n |-> 0]
             IN  IF ~p.ok THEN Fail(d, h, NotInteger)
                 ELSE LET num == Wrap(p.n + delta)
                      IN  Ret(Set(d, h, key, FormatInt(num)).d, h, num)

Incr(d, h, key) == AddTo(d, h, key, 1)
\* A faulty Decr: the body of Incr, copied with num++ left as it was.
DecrIncrementing(d, h, key) == AddTo(d, h, key, 1)

Decr(d, h, key) == AddTo(d, h, key, -1)

(***************************************************************************)
(* Storage: lists (container/list).                                        *)
(***************************************************************************)
RECURSIVE PushFrontAll(_, _)
PushFrontAll(l, values) ==
    IF values = <<>> THEN l ELSE PushFrontAll(<<Head(values)>> \o l, Tail(values))

RECURSIVE PushBackAll(_, _)
PushBackAll(l, values) ==
    IF values = <<>> THEN l ELSE PushBackAll(Append(l, Head(values)), Tail(values))

\* The list stored under key with `l` in place of its elements.
PutList(d, h, key, l) == [h EXCEPT ![d[key].id] = ListObj(l)]

\* A faulty LPush: the values are put in front of the list as one block, in
\* argument order, instead of one PushFront per value.
LPushBlock(d, h, key, values) ==
    LET s == LoadOrStore(d, h, key, ListObj(<<>>))
    IN  IF Shape(s.d, s.h, key) # "list" THEN Fail(d, h, WrongType)
        ELSE Ret(s.d, PutList(s.d, s.h, key, values \o Deref(s.d, s.h, key).l),
                 Len(values) + Len(Deref(s.d, s.h, key).l))

LPush(d, h, key, values) ==
    LET s == LoadOrStore(d, h, key, ListObj(<<>>))
    IN  IF Shape(s.d, s.h, key) # "list" THEN Fail(d, h, WrongType)
        ELSE LET l == PushFrontAll(Deref(s.d, s.h, key).l, values)
             IN  Ret(s.d, PutList(s.d, s.h, key, l), Len(l))

RPush(d, h, key, values) ==
    LET s == LoadOrStore(d, h, key, ListObj(<<>>))
    IN  IF Shape(s.d, s.h, key) # "list" THEN Fail(d, h, WrongType)
        ELSE LET l == PushBackAll(Deref(s.d, s.h, key).l, values)
             IN  Ret(s.d, PutList(s.d, s.h, key, l), Len(l))

LPop(d, h, key) ==
    IF d[key].t = "none" THEN Ret(d, h, <<>>)
    ELSE IF Shape(d, h, key) # "list" THEN Fail(d, h, WrongType)
    ELSE LET l == Deref(d, h, key).l
         IN  IF Len(l) = 0 THEN Ret(d, h, <<>>)
             ELSE Ret(d, PutList(d, h, key, Tail(l)), Head(l))

RPop(d, h, key) ==
    IF d[key].t = "none" THEN Ret(d, h, <<>>)
    ELSE IF Shape(d, h, key) # "list" THEN Fail(d, h, WrongType)
    ELSE LET l == Deref(d, h, key).l
         IN  IF Len(l) = 0 THEN Ret(d, h, <<>>)
             ELSE Ret(d, PutList(d, h, key, SubSeq(l, 1, Len(l) - 1)), l[Len(l)])

LLen(d, h, key) ==
    IF d[key].t = "none" THEN Ret(d, h, 0)
    ELSE IF Shape(d, h, key) # "list" THEN Fail(d, h, WrongType)
    ELSE Ret(d, h, Len(Deref(d, h, key).l))

\* A faulty LIndex: a negative index is adjusted by the last position instead
\* of the length, so that -1 names the element before the last.
LIndexBeforeLast(d, h, key, index) ==
    IF d[key].t = "none" THEN Ret(d, h, <<>>)
    ELSE IF Shape(d, h, key) # "list" THEN Fail(d, h, WrongType)
    ELSE LET l == Deref(d, h, key).l
             i == IF index < 0 THEN Len(l) - 1 + index ELSE index
         IN  IF Len(l) = 0 THEN Ret(d, h, <<>>)
             ELSE IF i < 0 \/ i >= Len(l) THEN Ret(d, h, <<>>)
             ELSE Ret(d, h, l[i + 1])

LIndex(d, h, key, index) ==
    IF d[key].t = "none" THEN Ret(d, h, <<>>)
    ELSE IF Shape(d, h, key) # "list" THEN Fail(d, h, WrongType)
    ELSE LET l == Deref(d, h, key).l
             i == IF index < 0 THEN Len(l) + index ELSE index
         IN  IF Len(l) = 0 THEN Ret(d, h, <<>>)
             ELSE IF i < 0 \/ i >= Len(l) THEN Ret(d, h, <<>>)
             ELSE Ret(d, h, l[i + 1])

\* A faulty LSet: an index past the end overwrites the last element before the
\* error is reported.
LSetClamping(d, h, key, index, value) ==
    IF d[key].t = "none" THEN Fail(d, h, ErrNoKey)
    ELSE IF Shape(d, h, key) # "list" THEN Fail(d, h, WrongType)
    ELSE LET l == Deref(d, h, key).l
             i == IF index < 0 THEN Len(l) + index ELSE index
         IN  IF i < 0 \/ i >= Len(l)
             THEN Fail(d, IF l = <<>> THEN h
                          ELSE PutList(d, h, key, [l EXCEPT ![Len(l)] = value]), ErrIndex)
             ELSE Ret(d, PutList(d, h, key, [l EXCEPT ![i + 1] = value]), 0)

LSet(d, h, key, index, value) ==
    IF d[key].t = "none" THEN Fail(d, h, ErrNoKey)
    ELSE IF Shape(d, h, key) # "list" THEN Fail(d, h, WrongType)
    ELSE LET l == Deref(d, h, key).l
             i == IF index < 0 THEN Len(l) + index ELSE index
         IN  IF i < 0 \/ i >= Len(l) THEN Fail(d, h, ErrIndex)
             ELSE Ret(d, PutList(d, h, key, [l EXCEPT ![i + 1] = value]), 0)

\* The head-to-tail loop of LRem: `all` is the count = 0 branch, which has no
\* `removed < count` condition.
RECURSIVE RemFromHead(_, _, _, _, _)
RemFromHead(l, value, count, removed, all) ==
    IF l = <<>> \/ (~all /\ ~(removed < count)) THEN [l |-> l, removed |-> removed]
    ELSE IF Head(l) = value
         THEN RemFromHead(Tail(l), value, count, removed + 1, all)
         ELSE LET r == RemFromHead(Tail(l), value, count, removed, all)
              IN  [l |-> <<Head(l)>> \o r.l, removed |-> r.removed]

\* The tail-to-head loop of LRem.
RECURSIVE RemFromTail(_, _, _, _)
RemFromTail(l, value, count, removed) ==
    IF l = <<>> \/ ~(removed < count) THEN [l |-> l, removed |-> removed]
    ELSE LET front == SubSeq(l, 1, Len(l) - 1)
         IN  IF l[Len(l)] = value
             THEN RemFromTail(front, value, count, removed + 1)
             ELSE LET r == RemFromTail(front, value, count, removed)
                  IN  [l |-> Append(r.l, l[Len(l)]), removed |-> r.removed]

LRem(d, h, key, count, value) ==
    IF d[key].t = "none" THEN Ret(d, h, 0)
    ELSE IF Shape(d, h, key) # "list" THEN Fail(d, h, WrongType)
    ELSE LET l == Deref(d, h, key).l
             r == IF count = 0 THEN RemFromHead(l, value, 0, 0, TRUE)
                  ELSE IF count > 0 THEN RemFromHead(l, value, count, 0, FALSE)
                  ELSE RemFromTail(l, value, Wrap(-count), 0)
         IN  Ret(d, PutList(d, h, key, r.l), r.removed)

\* A faulty LPushX: the body of LPush, which creates the list when the key is
\* absent.
LPushXCreating(d, h, key, values) == LPush(d, h, key, values)

LPushX(d, h, key, values) ==
    IF d[key].t = "none" THEN Ret(d, h, 0)
    ELSE IF Shape(d, h, key) # "list" THEN Fail(d, h, WrongType)
    ELSE LET l == PushFrontAll(Deref(d, h, key).l, values)
         IN  Ret(d, PutList(d, h, key, l), Len(l))

RPushX(d, h, key, values) ==
    IF d[key].t = "none" THEN Ret(d, h, 0)
    ELSE IF Shape(d, h, key) # "list" THEN Fail(d, h, WrongType)
    ELSE LET l == PushBackAll(Deref(d, h, key).l, values)
         IN  Ret(d, PutList(d, h, key, l), Len(l))

BEFORE == <<"B","E","F","O","R","E">>
AFTER  == <<"A","F","T","E","R">>

\* A faulty LInsert: the loop does not break at the first match, so the value is
\* inserted next to the last element equal to pivot.
LInsertAtLast(d, h, key, position, pivot, value) ==
    IF d[key].t = "none" THEN Ret(d, h, 0)
    ELSE IF Shape(d, h, key) # "list" THEN Fail(d, h, WrongType)
    ELSE LET l == Deref(d, h, key).l
         IN  IF ~\E i \in 1..Len(l) : l[i] = pivot THEN Ret(d, h, -1)
             ELSE LET i  == CHOOSE i \in 1..Len(l) :
                                l[i] = pivot /\ \A j \in (i + 1)..Len(l) : l[j] # pivot
                      l2 == IF position = BEFORE
                            THEN SubSeq(l, 1, i - 1) \o <<value>> \o SubSeq(l, i, Len(l))
                            ELSE SubSeq(l, 1, i) \o <<value>> \o SubSeq(l, i + 1, Len(l))
                  IN  Ret(d, PutList(d, h, key, l2), Len(l2))

LInsert(d, h, key, position, pivot, value) ==
    IF d[key].t = "none" THEN Ret(d, h, 0)
    ELSE IF Shape(d, h, key) # "list" THEN Fail(d, h, WrongType)
    ELSE LET l == Deref(d, h, key).l
         IN  IF ~\E i \in 1..Len(l) : l[i] = pivot THEN Ret(d, h, -1)
             ELSE LET i  == CHOOSE i \in 1..Len(l) :
                                l[i] = pivot /\ \A j \in 1..(i - 1) : l[j] # pivot
                      l2 == IF position = BEFORE
                            THEN SubSeq(l, 1, i - 1) \o <<value>> \o SubSeq(l, i, Len(l))
                            ELSE IF position = AFTER
                            THEN SubSeq(l, 1, i) \o <<value>> \o SubSeq(l, i + 1, Len(l))
                            ELSE l
                  IN  Ret(d, PutList(d, h, key, l2), Len(l2))

\* The index arithmetic LRange, LTrim, ZRange and ZRevRange share: negative
\* indices count from the end, then start is clamped to 0 and stop to length-1.
ClampStart(start, length) ==
    LET s == IF start < 0 THEN length + start ELSE start
    IN  IF s < 0 THEN 0 ELSE s

ClampStop(stop, length) ==
    LET e == IF stop < 0 THEN length + stop ELSE stop
    IN  IF e >= length THEN length - 1 ELSE e

LRange(d, h, key, start, stop) ==
    IF d[key].t = "none" THEN Ret(d, h, <<>>)
    ELSE IF Shape(d, h, key) # "list" THEN Fail(d, h, WrongType)
    ELSE LET l == Deref(d, h, key).l
             s == ClampStart(start, Len(l))
             e == ClampStop(stop, Len(l))
         IN  IF s > e \/ Len(l) = 0 THEN Ret(d, h, <<>>)
             ELSE Ret(d, h, SubSeq(l, s + 1, e + 1))

\* Remove n elements from the front / the back, each guarded by Len() > 0.
DropFront(l, n) == IF n >= Len(l) THEN <<>> ELSE SubSeq(l, n + 1, Len(l))
DropBack(l, n)  == IF n >= Len(l) THEN <<>> ELSE SubSeq(l, 1, Len(l) - n)

\* A faulty LTrim: the second loop removes length - stop elements from the back,
\* as if stop were exclusive.
LTrimExclusive(d, h, key, start, stop) ==
    IF d[key].t = "none" THEN Ret(d, h, 0)
    ELSE IF Shape(d, h, key) # "list" THEN Fail(d, h, WrongType)
    ELSE LET l == Deref(d, h, key).l
             s == ClampStart(start, Len(l))
             e == ClampStop(stop, Len(l))
         IN  IF s > e \/ Len(l) = 0 \/ s >= Len(l) THEN Ret(Delete(d, key), h, 0)
             ELSE Ret(d, PutList(d, h, key, DropBack(DropFront(l, s), Len(l) - e)), 0)

LTrim(d, h, key, start, stop) ==
    IF d[key].t = "none" THEN Ret(d, h, 0)
    ELSE IF Shape(d, h, key) # "list" THEN Fail(d, h, WrongType)
    ELSE LET l == Deref(d, h, key).l
             s == ClampStart(start, Len(l))
             e == ClampStop(stop, Len(l))
         IN  IF s > e \/ Len(l) = 0 \/ s >= Len(l) THEN Ret(Delete(d, key), h, 0)
             ELSE Ret(d, PutList(d, h, key,
                         DropBack(DropFront(l, s), Len(l) - (e + 1))), 0)

(***************************************************************************)
(* Go maps.  Iteration order is unspecified: every operator that ranges    *)
(* over a map takes the order as `ord`, a permutation of the possible      *)
(* members, chosen by the caller.  `rnd` stands for math/rand.             *)
(***************************************************************************)
Vals == {<<"a">>, <<"1">>}

RECURSIVE Perms(_)
Perms(S) ==
    IF S = {} THEN {<<>>}
    ELSE UNION {{<<x>> \o p : p \in Perms(S \ {x})} : x \in S}

Orders == Perms(Vals)

\* `for m := range set` under iteration order ord
Iter(S, ord) == SelectSeq(ord, LAMBDA x : x \in S)

Picks == [1..Cardinality(Vals) -> 0..(Cardinality(Vals) - 1)]

EmptyMap == [x \in {} |-> 0]
MapPut(f, k, v) == [x \in (DOMAIN f) \cup {k} |-> IF x = k THEN v ELSE f[x]]
MapDel(f, k)    == [x \in (DOMAIN f) \ {k} |-> f[x]]

PutObj(d, h, key, obj) == [h EXCEPT ![d[key].id] = obj]

(***************************************************************************)
(* Storage: hashes (map[string]string).                                    *)
(***************************************************************************)
HSet(d, h, key, field, value) ==
    LET s == LoadOrStore(d, h, key, HashObj(EmptyMap))
    IN  IF Shape(s.d, s.h, key) # "hash" THEN Fail(d, h, WrongType)
        ELSE LET f == Deref(s.d, s.h, key).h
             IN  Ret(s.d, PutObj(s.d, s.h, key, HashObj(MapPut(f, field, value))),
                     IF field \in DOMAIN f THEN 0 ELSE 1)

\* A faulty HGet: it loads the hash with LoadOrStore, as HSet does, and so creates
\* an absent key.
HGetCreating(d, h, key, field) ==
    LET s == LoadOrStore(d, h, key, HashObj(EmptyMap))
    IN  IF Shape(s.d, s.h, key) # "hash" THEN Fail(d, h, WrongType)
        ELSE LET f == Deref(s.d, s.h, key).h
             IN  IF field \in DOMAIN f THEN Ret(s.d, s.h, f[field]) ELSE Ret(s.d, s.h, <<>>)

HGet(d, h, key, field) ==
    IF d[key].t = "none" THEN Ret(d, h, <<>>)
    ELSE IF Shape(d, h, key) # "hash" THEN Fail(d, h, WrongType)
    ELSE LET f == Deref(d, h, key).h
         IN  IF field \in DOMAIN f THEN Ret(d, h, f[field]) ELSE Ret(d, h, <<>>)

RECURSIVE DelFields(_, _)
DelFields(f, fields) ==
    IF fields = <<>> THEN [f |-> f, n |-> 0]
    ELSE IF Head(fields) \in DOMAIN f
         THEN LET r == DelFields(MapDel(f, Head(fields)), Tail(fields))
              IN  [f |-> r.f, n |-> r.n + 1]
         ELSE DelFields(f, Tail(fields))

HDel(d, h, key, fields) ==
    IF d[key].t = "none" THEN Ret(d, h, 0)
    ELSE IF Shape(d, h, key) # "hash" THEN Fail(d, h, WrongType)
    ELSE LET r  == DelFields(Deref(d, h, key).h, fields)
             h2 == PutObj(d, h, key, HashObj(r.f))
         IN  IF DOMAIN r.f = {} THEN Ret(Delete(d, key), h2, r.n) ELSE Ret(d, h2, r.n)

HExists(d, h, key, field) ==
    IF d[key].t = "none" THEN Ret(d, h, 0)
    ELSE IF Shape(d, h, key) # "hash" THEN Fail(d, h, WrongType)
    ELSE Ret(d, h, IF field \in DOMAIN Deref(d, h, key).h THEN 1 ELSE 0)

HLen(d, h, key) ==
    IF d[key].t = "none" THEN Ret(d, h, 0)
    ELSE IF Shape(d, h, key) # "hash" THEN Fail(d, h, WrongType)
    ELSE Ret(d, h, Cardinality(DOMAIN Deref(d, h, key).h))

RECURSIVE Flatten(_, _)
Flatten(f, fields) ==
    IF fields = <<>> THEN <<>>
    ELSE <<Head(fields), f[Head(fields)]>> \o Flatten(f, Tail(fields))

HGetAll(d, h, key, ord) ==
    IF d[key].t = "none" THEN Ret(d, h, <<>>)
    ELSE IF Shape(d, h, key) # "hash" THEN Fail(d, h, WrongType)
    ELSE LET f == Deref(d, h, key).h
         IN  Ret(d, h, Flatten(f, Iter(DOMAIN f, ord)))

(***************************************************************************)
(* Storage: sets (map[string]struct{}).                                    *)
(***************************************************************************)
\* members (a sequence) as a set
Range(q) == {q[i] : i \in 1..Len(q)}

RECURSIVE AddAll(_, _)
AddAll(m, members) ==
    IF members = <<>> THEN [m |-> m, n |-> 0]
    ELSE LET r == AddAll(m \cup {Head(members)}, Tail(members))
         IN  [m |-> r.m, n |-> r.n + (IF Head(members) \in m THEN 0 ELSE 1)]

RECURSIVE RemAll(_, _)
RemAll(m, members) ==
    IF members = <<>> THEN [m |-> m, n |-> 0]
    ELSE LET r == RemAll(m \ {Head(members)}, Tail(members))
         IN  [m |-> r.m, n |-> r.n + (IF Head(members) \in m THEN 1 ELSE 0)]

SAdd(d, h, key, members) ==
    LET s == LoadOrStore(d, h, key, SetObj({}))
    IN  IF Shape(s.d, s.h, key) # "set" THEN Fail(d, h, WrongType)
        ELSE LET r == AddAll(Deref(s.d, s.h, key).m, members)
             IN  Ret(s.d, PutObj(s.d, s.h, key, SetObj(r.m)), r.n)

SRem(d, h, key, members) ==
    IF d[key].t = "none" THEN Ret(d, h, 0)
    ELSE IF Shape(d, h, key) # "set" THEN Fail(d, h, WrongType)
    ELSE LET r  == RemAll(Deref(d, h, key).m, members)
             h2 == PutObj(d, h, key, SetObj(r.m))
         IN  IF r.m = {} THEN Ret(Delete(d, key), h2, r.n) ELSE Ret(d, h2, r.n)

SIsMember(d, h, key, member) ==
    IF d[key].t = "none" THEN Ret(d, h, 0)
    ELSE IF Shape(d, h, key) # "set" THEN Fail(d, h, WrongType)
    ELSE Ret(d, h, IF member \in Deref(d, h, key).m THEN 1 ELSE 0)

SCard(d, h, key) ==
    IF d[key].t = "none" THEN Ret(d, h, 0)
    ELSE IF Shape(d, h, key) # "set" THEN Fail(d, h, WrongType)
    ELSE Ret(d, h, Cardinality(Deref(d, h, key).m))

SMembers(d, h, key, ord) ==
    IF d[key].t = "none" THEN Ret(d, h, <<>>)
    ELSE IF Shape(d, h, key) # "set" THEN Fail(d, h, WrongType)
    ELSE Ret(d, h, Iter(Deref(d, h, key).m, ord))

\* The pop loop of SPop: i counts the iterations done, rnd[i+1] % len(members)
\* is rand.Intn(len(members)).
RECURSIVE PopLoop(_, _, _, _)
PopLoop(members, i, numToPop, rnd) ==
    IF ~(i < numToPop) THEN <<>>
    ELSE LET randIndex == rnd[i + 1] % Len(members)
             rest == SubSeq(members, 1, randIndex) \o SubSeq(members, randIndex + 2, Len(members))
         IN  <<members[randIndex + 1]>> \o PopLoop(rest, i + 1, numToPop, rnd)

\* A faulty SPop: numToPop is not raised to the size of the set when count is
\* 0, so that SPOP k 0 pops nothing.
SPopZeroNone(d, h, key, count, ord, rnd) ==
    IF d[key].t = "none" THEN Ret(d, h, <<>>)
    ELSE IF Shape(d, h, key) # "set" THEN Fail(d, h, WrongType)
    ELSE LET m == Deref(d, h, key).m
             members  == Iter(m, ord)
             numToPop == IF count > Len(members) THEN Len(members) ELSE count
             popped   == PopLoop(members, 0, numToPop, rnd)
             m2 == m \ Range(popped)
             h2 == PutObj(d, h, key, SetObj(m2))
         IN  IF m = {} THEN Ret(d, h, <<>>)
             ELSE IF m2 = {} THEN Ret(Delete(d, key), h2, popped)
             ELSE Ret(d, h2, popped)

SPop(d, h, key, count, ord, rnd) ==
    IF d[key].t = "none" THEN Ret(d, h, <<>>)
    ELSE IF Shape(d, h, key) # "set" THEN Fail(d, h, WrongType)
    ELSE LET m == Deref(d, h, key).m
             members  == Iter(m, ord)
             numToPop == IF count > Len(members) \/ count = 0 THEN Len(members) ELSE count
             popped   == PopLoop(members, 0, numToPop, rnd)
             m2 == m \ Range(popped)
             h2 == PutObj(d, h, key, SetObj(m2))
         IN  IF m = {} THEN Ret(d, h, <<>>)
             ELSE IF m2 = {} THEN Ret(Delete(d, key), h2, popped)
             ELSE Ret(d, h2, popped)

\* ord is the map iteration order, shuffled the result of rand.Shuffle,
\* rnd the rand.Intn draws of the count < 0 branch.
SRandMember(d, h, key, count, ord, rnd) ==
    IF d[key].t = "none" THEN Ret(d, h, <<>>)
    ELSE IF Shape(d, h, key) # "set" THEN Fail(d, h, WrongType)
    ELSE LET m == Deref(d, h, key).m
             members == Iter(m, ord)
             n == Len(members)
         IN  IF m = {} THEN Ret(d, h, <<>>)
             ELSE IF count = 0 THEN Ret(d, h, <<>>)
             ELSE IF count > 0
                  THEN Ret(d, h, SubSeq(members, 1, IF count > n THEN n ELSE count))
                  ELSE LET numToReturn == Wrap(-count)
                       IN  Ret(d, h, [i \in 1..(IF numToReturn < 0 THEN 0 ELSE numToReturn) |->
                                        members[(rnd[((i - 1) % Len(rnd)) + 1] % n) + 1]])

RECURSIVE InterLoop(_, _, _, _)
InterLoop(d, h, acc, keys) ==
    IF keys = <<>> THEN [m |-> acc, err |-> <<>>]
    ELSE IF d[Head(keys)].t = "none" THEN [m |-> {}, err |-> <<>>]
    ELSE IF Shape(d, h, Head(keys)) # "set" THEN [m |-> {}, err |-> WrongType]
    ELSE LET new == acc \cap Deref(d, h, Head(keys)).m
         IN  IF new = {} THEN [m |-> {}, err |-> <<>>]
             ELSE InterLoop(d, h, new, Tail(keys))

SInter(d, h, keys, ord) ==
    IF keys = <<>> THEN Ret(d, h, <<>>)
    ELSE IF d[Head(keys)].t = "none" THEN Ret(d, h, <<>>)
    ELSE IF Shape(d, h, Head(keys)) # "set" THEN Fail(d, h, WrongType)
    ELSE LET r == InterLoop(d, h, Deref(d, h, Head(keys)).m, Tail(keys))
         IN  IF r.err # <<>> THEN Fail(d, h, r.err) ELSE Ret(d, h, Iter(r.m, ord))

RECURSIVE UnionLoop(_, _, _, _)
UnionLoop(d, h, acc, keys) ==
    IF keys = <<>> THEN [m |-> acc, err |-> <<>>]
    ELSE IF d[Head(keys)].t = "none" THEN UnionLoop(d, h, acc, Tail(keys))
    ELSE IF Shape(d, h, Head(keys)) # "set" THEN [m |-> {}, err |-> WrongType]
    ELSE UnionLoop(d, h, acc \cup Deref(d, h, Head(keys)).m, Tail(keys))

SUnion(d, h, keys, ord) ==
    LET r == UnionLoop(d, h, {}, keys)
    IN  IF r.err # <<>> THEN Fail(d, h, r.err) ELSE Ret(d, h, Iter(r.m, ord))

\* A faulty SDiff loop: the symmetric difference, which puts back the members a
\* second occurrence of a key names.
RECURSIVE DiffLoopSymmetric(_, _, _, _)
DiffLoopSymmetric(d, h, acc, keys) ==
    IF keys = <<>> THEN [m |-> acc, err |-> <<>>]
    ELSE IF d[Head(keys)].t = "none" THEN DiffLoopSymmetric(d, h, acc, Tail(keys))
    ELSE IF Shape(d, h, Head(keys)) # "set" THEN [m |-> {}, err |-> WrongType]
    ELSE DiffLoopSymmetric(d, h, (acc \ Deref(d, h, Head(keys)).m)
                                     \cup (Deref(d, h, Head(keys)).m \ acc), Tail(keys))

RECURSIVE DiffLoop(_, _, _, _)
DiffLoop(d, h, acc, keys) ==
    IF keys = <<>> THEN [m |-> acc, err |-> <<>>]
    ELSE IF d[Head(keys)].t = "none" THEN DiffLoop(d, h, acc, Tail(keys))
    ELSE IF Shape(d, h, Head(keys)) # "set" THEN [m |-> {}, err |-> WrongType]
    ELSE DiffLoop(d, h, acc \ Deref(d, h, Head(keys)).m, Tail(keys))

SDiff(d, h, keys, ord) ==
    IF keys = <<>> THEN Ret(d, h, <<>>)
    ELSE IF d[Head(keys)].t = "none" THEN Ret(d, h, <<>>)
    ELSE IF Shape(d, h, Head(keys)) # "set" THEN Fail(d, h, WrongType)
    ELSE LET r == DiffLoop(d, h, Deref(d, h, Head(keys)).m, Tail(keys))
         IN  IF r.err # <<>> THEN Fail(d, h, r.err) ELSE Ret(d, h, Iter(r.m, ord))

(***************************************************************************)
(* Storage: sorted sets (map[string]ZSetMember).  A score is a float64;    *)
(* the model's scores are the integral ones and NaN.                       *)
(***************************************************************************)
\* The characters of the model in ASCII order.
Ascii == <<"+", "-">> \o Digits \o Upper \o Lower
Code(c) == CHOOSE j \in 1..Len(Ascii) : Ascii[j] = c

\* Go's < on strings: bytewise lexicographic.
RECURSIVE StrLess(_, _)
StrLess(a, b) ==
    IF b = <<>> THEN FALSE
    ELSE IF a = <<>> THEN TRUE
    ELSE IF Head(a) # Head(b) THEN Code(Head(a)) < Code(Head(b))
    ELSE StrLess(Tail(a), Tail(b))

\* The float64 NaN.  Its stand-in is an integer that no score of the model
\* reaches; every comparison and sum of scores goes through the operators
\* below, which give NaN the behaviour of IEEE 754.
NaN == 1000
IsNaN(x) == x = NaN
FEq(x, y)   == ~IsNaN(x) /\ ~IsNaN(y) /\ x = y
FLess(x, y) == ~IsNaN(x) /\ ~IsNaN(y) /\ x < y
FLeq(x, y)  == ~IsNaN(x) /\ ~IsNaN(y) /\ x <= y
FAdd(x, y)  == IF IsNaN(x) \/ IsNaN(y) THEN NaN ELSE x + y

\* strconv.ParseFloat on the texts of the model: decimal integers, and "nan"
\* in any case of letters, which it reads as NaN with no error.
ParseFloat(s) ==
    LET signed == s # <<>> /\ s[1] \in {"+", "-"}
        body   == IF signed THEN Tail(s) ELSE s
    IN  IF ToUpper(s) = <<"N", "A", "N">> THEN [ok |-> TRUE, x |-> NaN]
        ELSE IF body = <<>> \/ \E i \in 1..Len(body) : ~IsDigit(body[i])
        THEN [ok |-> FALSE, x |-> 0]
        ELSE [ok |-> TRUE, x |-> IF s[1] = "-" THEN -ParseUint(body) ELSE ParseUint(body)]

\* strconv.FormatFloat(x, 'f', -1, 64) of an integral x or NaN
FormatFloat(x) == IF IsNaN(x) THEN <<"N", "a", "N">> ELSE FormatInt(x)

\* The less functions handed to sort.Slice.
LessAsc(z, a, b)  == IF ~FEq(z[a], z[b]) THEN FLess(z[a], z[b]) ELSE StrLess(a, b)
\* A faulty descending less: ties are ordered by descending member, which makes
\* the descending order the mirror image of the ascending one.
LessDescMirror(z, a, b) == IF ~FEq(z[a], z[b]) THEN FLess(z[b], z[a]) ELSE StrLess(b, a)
LessDesc(z, a, b) == IF ~FEq(z[a], z[b]) THEN FLess(z[b], z[a]) ELSE StrLess(a, b)

\* sort.Slice on a slice of at most 12 elements is an insertion sort: each
\* element in turn moves towards the front while it is less than the element
\* before it.
RECURSIVE InsertAsc(_, _, _)
InsertAsc(z, front, x) ==
    IF front # <<>> /\ LessAsc(z, x, front[Len(front)])
    THEN Append(InsertAsc(z, SubSeq(front, 1, Len(front) - 1), x), front[Len(front)])
    ELSE Append(front, x)

RECURSIVE InsertDesc(_, _, _)
InsertDesc(z, front, x) ==
    IF front # <<>> /\ LessDesc(z, x, front[Len(front)])
    THEN Append(InsertDesc(z, SubSeq(front, 1, Len(front) - 1), x), front[Len(front)])
    ELSE Append(front, x)

\* The members S of z, collected in map iteration order and sorted.
RECURSIVE SortAsc(_, _)
SortAsc(z, members) ==
    IF members = <<>> THEN <<>>
    ELSE InsertAsc(z, SortAsc(z, SubSeq(members, 1, Len(members) - 1)), members[Len(members)])

RECURSIVE SortDesc(_, _)
SortDesc(z, members) ==
    IF members = <<>> THEN <<>>
    ELSE InsertDesc(z, SortDesc(z, SubSeq(members, 1, Len(members) - 1)), members[Len(members)])

\* The reply of a range query: the members, each followed by its score
\* when withScores.
RECURSIVE WithScores(_, _, _)
WithScores(z, members, withScores) ==
    IF members = <<>> THEN <<>>
    ELSE (IF withScores THEN <<Head(members), FormatFloat(z[Head(members)])>>
          ELSE <<Head(members)>>) \o WithScores(z, Tail(members), withScores)

RECURSIVE ZAddAll(_, _)
ZAddAll(z, members) ==
    IF members = <<>> THEN [z |-> z, n |-> 0]
    ELSE LET m == Head(members)
         IN  IF m.Member \notin DOMAIN z \/ ~FEq(z[m.Member], m.Score)
             THEN LET r == ZAddAll(MapPut(z, m.Member, m.Score), Tail(members))
                  IN  [z |-> r.z, n |-> r.n + 1]
             ELSE ZAddAll(z, Tail(members))

ZAdd(d, h, key, members) ==
    LET s == LoadOrStore(d, h, key, ZSetObj(EmptyMap))
    IN  IF Shape(s.d, s.h, key) # "zset" THEN Fail(d, h, WrongType)
        ELSE LET r == ZAddAll(Deref(s.d, s.h, key).z, members)
             IN  Ret(s.d, PutObj(s.d, s.h, key, ZSetObj(r.z)), r.n)

ZScore(d, h, key, member) ==
    IF d[key].t = "none" THEN Ret(d, h, [score |-> 0, found |-> FALSE])
    ELSE IF Shape(d, h, key) # "zset" THEN Fail(d, h, WrongType)
    ELSE LET z == Deref(d, h, key).z
         IN  IF member \in DOMAIN z THEN Ret(d, h, [score |-> z[member], found |-> TRUE])
             ELSE Ret(d, h, [score |-> 0, found |-> FALSE])

ZRem(d, h, key, members) ==
    IF d[key].t = "none" THEN Ret(d, h, 0)
    ELSE IF Shape(d, h, key) # "zset" THEN Fail(d, h, WrongType)
    ELSE LET r  == DelFields(Deref(d, h, key).z, members)
             h2 == PutObj(d, h, key, ZSetObj(r.f))
         IN  IF DOMAIN r.f = {} THEN Ret(Delete(d, key), h2, r.n) ELSE Ret(d, h2, r.n)

ZCard(d, h, key) ==
    IF d[key].t = "none" THEN Ret(d, h, 0)
    ELSE IF Shape(d, h, key) # "zset" THEN Fail(d, h, WrongType)
    ELSE Ret(d, h, Cardinality(DOMAIN Deref(d, h, key).z))

\* ZRange and ZRevRange once the members are sorted.
RangeOf(z, members, start, stop, withScores) ==
    LET s == ClampStart(start, Len(members))
        e == ClampStop(stop, Len(members))
    IN  IF s > e \/ Len(members) = 0 THEN <<>>
        ELSE WithScores(z, SubSeq(members, s + 1, e + 1), withScores)

ZRange(d, h, key, start, stop, withScores, ord) ==
    IF d[key].t = "none" THEN Ret(d, h, <<>>)
    ELSE IF Shape(d, h, key) # "zset" THEN Fail(d, h, WrongType)
    ELSE LET z == Deref(d, h, key).z
         IN  IF DOMAIN z = {} THEN Ret(d, h, <<>>)
             ELSE Ret(d, h, RangeOf(z, SortAsc(z, Iter(DOMAIN z, ord)), start, stop, withScores))

ZRevRange(d, h, key, start, stop, withScores, ord) ==
    IF d[key].t = "none" THEN Ret(d, h, <<>>)
    ELSE IF Shape(d, h, key) # "zset" THEN Fail(d, h, WrongType)
    ELSE LET z == Deref(d, h, key).z
         IN  IF DOMAIN z = {} THEN Ret(d, h, <<>>)
             ELSE Ret(d, h, RangeOf(z, SortDesc(z, Iter(DOMAIN z, ord)), start, stop, withScores))

\* ZRangeByScore and ZRevRangeByScore once the members are filtered and sorted.
LimitOf(z, members, offset, count, withScores) ==
    LET startIndex == IF offset < 0 THEN 0 ELSE offset
        sum        == Wrap(startIndex + count)
        endIndex   == IF count = -1 \/ sum > Len(members) THEN Len(members) ELSE sum
    IN  IF startIndex < endIndex
        THEN WithScores(z, SubSeq(members, startIndex + 1, endIndex), withScores)
        ELSE <<>>

ZRangeByScore(d, h, key, min, max, offset, count, withScores, ord) ==
    IF d[key].t = "none" THEN Ret(d, h, <<>>)
    ELSE IF Shape(d, h, key) # "zset" THEN Fail(d, h, WrongType)
    ELSE LET z == Deref(d, h, key).z
             filtered == {m \in DOMAIN z : FLeq(min, z[m]) /\ FLeq(z[m], max)}
         IN  Ret(d, h, LimitOf(z, SortAsc(z, Iter(filtered, ord)), offset, count, withScores))

ZRevRangeByScore(d, h, key, max, min, offset, count, withScores, ord) ==
    IF d[key].t = "none" THEN Ret(d, h, <<>>)
    ELSE IF Shape(d, h, key) # "zset" THEN Fail(d, h, WrongType)
    ELSE LET z == Deref(d, h, key).z
             filtered == {m \in DOMAIN z : FLeq(z[m], max) /\ FLeq(min, z[m])}
         IN  Ret(d, h, LimitOf(z, SortDesc(z, Iter(filtered, ord)), offset, count, withScores))

ZCount(d, h, key, min, max) ==
    IF d[key].t = "none" THEN Ret(d, h, 0)
    ELSE IF Shape(d, h, key) # "zset" THEN Fail(d, h, WrongType)
    ELSE LET z == Deref(d, h, key).z
         IN  Ret(d, h, Cardinality({m \in DOMAIN z : FLeq(min, z[m]) /\ FLeq(z[m], max)}))

ZIncrBy(d, h, key, increment, member) ==
    LET s == LoadOrStore(d, h, key, ZSetObj(EmptyMap))
    IN  IF Shape(s.d, s.h, key) # "zset" THEN Fail(d, h, WrongType)
        ELSE LET z == Deref(s.d, s.h, key).z
                 newScore == IF member \in DOMAIN z THEN FAdd(z[member], increment) ELSE increment
             IN  Ret(s.d, PutObj(s.d, s.h, key, ZSetObj(MapPut(z, member, newScore))), newScore)

\* The 0-based position of member in the sorted slice.
IndexOf(members, member) == (CHOOSE i \in 1..Len(members) : members[i] = member) - 1

ZRank(d, h, key, member, ord) ==
    IF d[key].t = "none" THEN Ret(d, h, [rank |-> 0, found |-> FALSE])
    ELSE IF Shape(d, h, key) # "zset" THEN Fail(d, h, WrongType)
    ELSE LET z == Deref(d, h, key).z
         IN  IF member \notin DOMAIN z THEN Ret(d, h, [rank |-> 0, found |-> FALSE])
             ELSE Ret(d, h, [rank |-> IndexOf(SortAsc(z, Iter(DOMAIN z, ord)), member), found |-> TRUE])

\* A faulty ZRevRank: the position is taken in the ascending order.
ZRevRankAscending(d, h, key, member, ord) ==
    IF d[key].t = "none" THEN Ret(d, h, [rank |-> 0, found |-> FALSE])
    ELSE IF Shape(d, h, key) # "zset" THEN Fail(d, h, WrongType)
    ELSE LET z == Deref(d, h, key).z
         IN  IF member \notin DOMAIN z THEN Ret(d, h, [rank |-> 0, found |-> FALSE])
             ELSE Ret(d, h, [rank |-> IndexOf(SortAsc(z, Iter(DOMAIN z, ord)), member), found |-> TRUE])

ZRevRank(d, h, key, member, ord) ==
    IF d[key].t = "none" THEN Ret(d, h, [rank |-> 0, found |-> FALSE])
    ELSE IF Shape(d, h, key) # "zset" THEN Fail(d, h, WrongType)
    ELSE LET z == Deref(d, h, key).z
         IN  IF member \notin DOMAIN z THEN Ret(d, h, [rank |-> 0, found |-> FALSE])
             ELSE Ret(d, h, [rank |-> IndexOf(SortDesc(z, Iter(DOMAIN z, ord)), member), found |-> TRUE])

(***************************************************************************)
(* The command layer.                                                      *)
(***************************************************************************)
\* The names NewCommandRegistry registers.
Name ==
    [PING |-> <<"P","I","N","G">>,
     SET |-> <<"S","E","T">>,
     GET |-> <<"G","E","T">>,
     DEL |-> <<"D","E","L">>,
     EXISTS |-> <<"E","X","I","S","T","S">>,
     INCR |-> <<"I","N","C","R">>,
     DECR |-> <<"D","E","C","R">>,
     LPUSH |-> <<"L","P","U","S","H">>,
     RPUSH |-> <<"R","P","U","S","H">>,
     LPOP |-> <<"L","P","O","P">>,
     RPOP |-> <<"R","P","O","P">>,
     LLEN |-> <<"L","L","E","N">>,
     LINDEX |-> <<"L","I","N","D","E","X">>,
     LSET |-> <<"L","S","E","T">>,
     LREM |-> <<"L","R","E","M">>,
     LPUSHX |-> <<"L","P","U","S","H","X">>,
     RPUSHX |-> <<"R","P","U","S","H","X">>,
     LINSERT |-> <<"L","I","N","S","E","R","T">>,
     LRANGE |-> <<"L","R","A","N","G","E">>,
     LTRIM |-> <<"L","T","R","I","M">>,
     HSET |-> <<"H","S","E","T">>,
     HGET |-> <<"H","G","E","T">>,
     HDEL |-> <<"H","D","E","L">>,
     HEXISTS |-> <<"H","E","X","I","S","T","S">>,
     HLEN |-> <<"H","L","E","N">>,
     HGETALL |-> <<"H","G","E","T","A","L","L">>,
     SADD |-> <<"S","A","D","D">>,
     SREM |-> <<"S","R","E","M">>,
     SISMEMBER |-> <<"S","I","S","M","E","M","B","E","R">>,
     SCARD |-> <<"S","C","A","R","D">>,
     SMEMBERS |-> <<"S","M","E","M","B","E","R","S">>,
     SPOP |-> <<"S","P","O","P">>,
     SRANDMEMBER |-> <<"S","R","A","N","D","M","E","M","B","E","R">>,
     SINTER |-> <<"S","I","N","T","E","R">>,
     SUNION |-> <<"S","U","N","I","O","N">>,
     SDIFF |-> <<"S","D","I","F","F">>,
     ZADD |-> <<"Z","A","D","D">>,
     ZSCORE |-> <<"Z","S","C","O","R","E">>,
     ZREM |-> <<"Z","R","E","M">>,
     ZCARD |-> <<"Z","C","A","R","D">>,
     ZRANGE |-> <<"Z","R","A","N","G","E">>,
     ZRANGEBYSCORE |-> <<"Z","R","A","N","G","E","B","Y","S","C","O","R","E">>,
     ZCOUNT |-> <<"Z","C","O","U","N","T">>,
     ZINCRBY |-> <<"Z","I","N","C","R","B","Y">>,
     ZRANK |-> <<"Z","R","A","N","K">>,
     ZREVRANK |-> <<"Z","R","E","V","R","A","N","K">>,
     ZREVRANGEBYSCORE |-> <<"Z","R","E","V","R","A","N","G","E","B","Y","S","C","O","R","E">>,
     ZREVRANGE |-> <<"Z","R","E","V","R","A","N","G","E">>]

WITHSCORES == <<"W","I","T","H","S","C","O","R","E","S">>
LIMIT      == <<"L","I","M","I","T">>

\* What a constructor returns: (Command, nil) or (nil, error).
Cmd(c)   == [ok |-> TRUE,  cmd |-> c, err |-> <<>>]
Bad(msg) == [ok |-> FALSE, cmd |-> [op |-> "none"], err |-> msg]

\* args[i].Type == resp.Bulk for the first n arguments
AllBulk(args, n) == \A i \in 1..n : args[i].Type = Bulk
Strs(args) == [i \in 1..Len(args) |-> args[i].Str]

\* The constructors of the one-key commands (GET, INCR, LPOP, LLEN, ...):
\* exactly one argument, which must be a bulk string.
OneKey(args, op, lname, uname) ==
    IF Len(args) # 1 THEN Bad(ErrArity(lname))
    ELSE IF args[1].Type # Bulk THEN Bad(<<"ERR ", uname, " argument must be a bulk string">>)
    ELSE Cmd([op |-> op, key |-> args[1].Str])

\* The constructors of the key-and-values commands (LPUSH, SADD, HDEL, ...): the
\* key is taken as it is, only the values are checked to be bulk strings.
KeyAndValues(args, op, lname, uname) ==
    IF Len(args) < 2 THEN Bad(ErrArity(lname))
    ELSE IF ~\A i \in 2..Len(args) : args[i].Type = Bulk
         THEN Bad(<<"ERR ", uname, " arguments must be bulk strings">>)
    ELSE Cmd([op |-> op, key |-> args[1].Str, values |-> Strs(Tail(args))])

\* The constructors of the commands of n bulk arguments, the first the key.
Fixed(args, n, op, lname, uname) ==
    IF Len(args) # n THEN Bad(ErrArity(lname))
    ELSE IF ~AllBulk(args, n) THEN Bad(<<"ERR ", uname, " arguments must be bulk strings">>)
    ELSE Cmd([op |-> op, key |-> args[1].Str, args |-> Strs(Tail(args))])

\* The constructors of the several-keys commands (DEL, EXISTS, SINTER, ...).
ManyKeys(args, op, lname, uname) ==
    IF Len(args) = 0 THEN Bad(ErrArity(lname))
    ELSE IF ~AllBulk(args, Len(args)) THEN Bad(<<"ERR ", uname, " arguments must be bulk strings">>)
    ELSE Cmd([op |-> op, keys |-> Strs(args)])

NewPingCommand(args) ==
    IF Len(args) > 1 THEN Bad(ErrArity("ping"))
    ELSE IF Len(args) = 1
         THEN IF args[1].Type # Bulk THEN Bad(<<"ERR PING argument must be a bulk string">>)
              ELSE Cmd([op |-> "Ping", message |-> args[1].Str])
         ELSE Cmd([op |-> "Ping", message |-> PONG])

NewSetCommand(args) ==
    LET c == Fixed(args, 2, "Set", "set", "SET")
    IN  IF c.ok THEN Cmd([op |-> "Set", key |-> c.cmd.key, value |-> c.cmd.args[1]]) ELSE c

NewLIndexCommand(args) ==
    LET c == Fixed(args, 2, "LIndex", "lindex", "LINDEX")
        index == ParseInt(c.cmd.args[1])
    IN  IF ~c.ok THEN c
        ELSE IF ~index.ok THEN Bad(ErrNotInt)
        ELSE Cmd([op |-> "LIndex", key |-> c.cmd.key, index |-> index.n])

NewLSetCommand(args) ==
    LET c == Fixed(args, 3, "LSet", "lset", "LSET")
        index == ParseInt(c.cmd.args[1])
    IN  IF ~c.ok THEN c
        ELSE IF ~index.ok THEN Bad(ErrNotInt)
        ELSE Cmd([op |-> "LSet", key |-> c.cmd.key, index |-> index.n, value |-> c.cmd.args[2]])

NewLRemCommand(args) ==
    LET c == Fixed(args, 3, "LRem", "lrem", "LREM")
        count == ParseInt(c.cmd.args[1])
    IN  IF ~c.ok THEN c
        ELSE IF ~count.ok THEN Bad(ErrNotInt)
        ELSE Cmd([op |-> "LRem", key |-> c.cmd.key, count |-> count.n, value |-> c.cmd.args[2]])

NewLInsertCommand(args) ==
    LET c == Fixed(args, 4, "LInsert", "linsert", "LINSERT")
        position == ToUpper(c.cmd.args[1])
    IN  IF ~c.ok THEN c
        ELSE IF position # BEFORE /\ position # AFTER THEN Bad(ErrSyntax)
        ELSE Cmd([op |-> "LInsert", key |-> c.cmd.key, position |-> position,
                  pivot |-> c.cmd.args[2], value |-> c.cmd.args[3]])

\* The constructors of LRANGE and LTRIM: key, start, stop.
KeyStartStop(args, op, lname, uname) ==
    LET c == Fixed(args, 3, op, lname, uname)
        start == ParseInt(c.cmd.args[1])
        stop  == ParseInt(c.cmd.args[2])
    IN  IF ~c.ok THEN c
        ELSE IF ~start.ok THEN Bad(ErrNotInt)
        ELSE IF ~stop.ok THEN Bad(ErrNotInt)
        ELSE Cmd([op |-> op, key |-> c.cmd.key, start |-> start.n, stop |-> stop.n])

NewHSetCommand(args) ==
    LET c == Fixed(args, 3, "HSet", "hset", "HSET")
    IN  IF c.ok THEN Cmd([op |-> "HSet", key |-> c.cmd.key, field |-> c.cmd.args[1],
                          value |-> c.cmd.args[2]])
        ELSE c

\* The constructors of the key-and-member commands (HGET, SISMEMBER, ZSCORE, ...).
KeyMember(args, op, lname, uname) ==
    LET c == Fixed(args, 2, op, lname, uname)
    IN  IF c.ok THEN Cmd([op |-> op, key |-> c.cmd.key, member |-> c.cmd.args[1]]) ELSE c

\* The constructors of SPOP and SRANDMEMBER: key and an optional count.
KeyCount(args, op, lname, uname) ==
    IF Len(args) < 1 \/ Len(args) > 2 THEN Bad(ErrArity(lname))
    ELSE IF args[1].Type # Bulk THEN Bad(<<"ERR ", uname, " argument must be a bulk string">>)
    ELSE IF Len(args) = 2
         THEN IF args[2].Type # Bulk
              THEN Bad(<<"ERR ", uname, " count argument must be an integer">>)
              ELSE LET parsedCount == ParseInt(args[2].Str)
                   IN  IF ~parsedCount.ok THEN Bad(ErrNotInt)
                       ELSE Cmd([op |-> op, key |-> args[1].Str, count |-> parsedCount.n])
         ELSE Cmd([op |-> op, key |-> args[1].Str, count |-> 1])

\* The loop of NewZAddCommand over the (score, member) pairs, from args[i].
RECURSIVE ZAddPairs(_, _, _)
ZAddPairs(args, i, members) ==
    IF i > Len(args) THEN Cmd([op |-> "ZAdd", key |-> args[1].Str, members |-> members])
    ELSE IF args[i].Type # Bulk \/ args[i + 1].Type # Bulk
         THEN Bad(<<"ERR ", "ZADD", " arguments must be bulk strings">>)
    ELSE LET score == ParseFloat(args[i].Str)
         IN  IF ~score.ok THEN Bad(<<"ERR value is not a valid float">>)
             ELSE ZAddPairs(args, i + 2,
                            Append(members, [Score |-> score.x, Member |-> args[i + 1].Str]))

NewZAddCommand(args) ==
    IF Len(args) < 3 \/ Len(args) % 2 = 0 THEN Bad(ErrArity("zadd"))
    ELSE ZAddPairs(args, 2, <<>>)

\* The constructors of ZRANGE and ZREVRANGE: key, start, stop and an optional
\* WITHSCORES, which is not checked to be a bulk string.
KeyStartStopScores(args, op, lname, uname) ==
    IF Len(args) < 3 \/ Len(args) > 4 THEN Bad(ErrArity(lname))
    ELSE IF ~AllBulk(args, 3) THEN Bad(<<"ERR ", uname, " arguments must be bulk strings">>)
    ELSE LET start == ParseInt(args[2].Str)
             stop  == ParseInt(args[3].Str)
         IN  IF ~start.ok THEN Bad(ErrNotInt)
             ELSE IF ~stop.ok THEN Bad(ErrNotInt)
             ELSE IF Len(args) = 4 /\ ToUpper(args[4].Str) # WITHSCORES THEN Bad(ErrSyntax)
             ELSE Cmd([op |-> op, key |-> args[1].Str, start |-> start.n, stop |-> stop.n,
                       withScores |-> Len(args) = 4])

\* The option loop of NewZRangeByScoreCommand and NewZRevRangeByScoreCommand, from
\* args[i]; c is the command built so far.
RECURSIVE ByScoreOptions(_, _, _)
ByScoreOptions(args, i, c) ==
    IF i > Len(args) THEN Cmd(c)
    ELSE LET option == ToUpper(args[i].Str)
         IN  IF option = WITHSCORES
             THEN ByScoreOptions(args, i + 1, [c EXCEPT !.withScores = TRUE])
             ELSE IF option = LIMIT
             THEN IF i + 2 > Len(args) THEN Bad(ErrSyntax)
                  ELSE LET offset == ParseInt(args[i + 1].Str)
                           count  == ParseInt(args[i + 2].Str)
                       IN  IF ~offset.ok
                           THEN Bad(<<"ERR offset is not an integer or out of range">>)
                           ELSE IF ~count.ok
                           THEN Bad(<<"ERR count is not an integer or out of range">>)
                           ELSE ByScoreOptions(args, i + 3,
                                    [c EXCEPT !.offset = offset.n, !.count = count.n])
             ELSE Bad(ErrSyntax)

NewZRangeByScoreCommand(args) ==
    IF Len(args) < 3 THEN Bad(ErrArity("zrangebyscore"))
    ELSE LET min == ParseFloat(args[2].Str)
             max == ParseFloat(args[3].Str)
         IN  IF ~min.ok THEN Bad(<<"ERR min is not a valid float">>)
             ELSE IF ~max.ok THEN Bad(<<"ERR max is not a valid float">>)
             ELSE ByScoreOptions(args, 4,
                      [op |-> "ZRangeByScore", key |-> args[1].Str, min |-> min.x,
                       max |-> max.x, offset |-> 0, count |-> -1, withScores |-> FALSE])

NewZRevRangeByScoreCommand(args) ==
    IF Len(args) < 3 THEN Bad(ErrArity("zrevrangebyscore"))
    ELSE LET max == ParseFloat(args[2].Str)
             min == ParseFloat(args[3].Str)
         IN  IF ~max.ok THEN Bad(<<"ERR max is not a valid float">>)
             ELSE IF ~min.ok THEN Bad(<<"ERR min is not a valid float">>)
             ELSE ByScoreOptions(args, 4,
                      [op |-> "ZRevRangeByScore", key |-> args[1].Str, min |-> min.x,
                       max |-> max.x, offset |-> 0, count |-> -1, withScores |-> FALSE])

NewZCountCommand(args) ==
    LET c == Fixed(args, 3, "ZCount", "zcount", "ZCOUNT")
        min == ParseFloat(c.cmd.args[1])
        max == ParseFloat(c.cmd.args[2])
    IN  IF ~c.ok THEN c
        ELSE IF ~min.ok THEN Bad(<<"ERR min is not a valid float">>)
        ELSE IF ~max.ok THEN Bad(<<"ERR max is not a valid float">>)
        ELSE Cmd([op |-> "ZCount", key |-> c.cmd.key, min |-> min.x, max |-> max.x])

NewZIncrByCommand(args) ==
    LET c == Fixed(args, 3, "ZIncrBy", "zincrby", "ZINCRBY")
        increment == ParseFloat(c.cmd.args[1])
    IN  IF ~c.ok THEN c
        ELSE IF ~increment.ok THEN Bad(<<"ERR value is not a valid float">>)
        ELSE Cmd([op |-> "ZIncrBy", key |-> c.cmd.key, increment |-> increment.x,
                  member |-> c.cmd.args[2]])

(***************************************************************************)
(* Command.Apply.  r is what the Storage method returned; the result is    *)
(* the storage after the call, the reply, and whether the call panicked.   *)
(***************************************************************************)
Applied(r, result) == [d |-> r.d, h |-> r.h, reply |-> result, panic |-> r.panic]

\* if err != nil { return resp.NewError(err.Error()) }; return resp.NewInteger(n)
IntegerReply(r) == Applied(r, IF r.err # <<>> THEN NewError(r.err) ELSE NewInteger(r.ret))
\* ...; return resp.NewBulk(val): the val == "" branch returns the same value
BulkReply(r)    == Applied(r, IF r.err # <<>> THEN NewError(r.err) ELSE NewBulk(r.ret))
\* ...; return resp.NewString("OK")
OKReply(r)      == Applied(r, IF r.err # <<>> THEN NewError(r.err) ELSE NewString(OK))
\* ...; respValues[i] = resp.NewBulk(member); return resp.NewArray(respValues)
ArrayReply(r)   ==
    Applied(r, IF r.err # <<>> THEN NewError(r.err)
               ELSE NewArray([i \in 1..Len(r.ret) |-> NewBulk(r.ret[i])]))

\* ord is the order in which this call's map iterations visit the members, rnd
\* the numbers this call draws from math/rand.
Apply(c, d, h, ord, rnd) ==
    CASE c.op = "Ping"   -> Applied(Ret(d, h, 0), NewString(c.message))
      [] c.op = "Set"    -> OKReply(Set(d, h, c.key, c.value))
      [] c.op = "Get"    -> LET r == Get(d, h, c.key)
                            IN  Applied(r, IF r.panic \/ ~r.ret.ok THEN NewBulk(<<>>)
                                           ELSE NewBulk(r.ret.val))
      [] c.op = "Del"    -> IntegerReply(Del(d, h, c.keys))
      [] c.op = "Exists" -> IntegerReply(Exists(d, h, c.keys))
      [] c.op = "Incr"   -> IntegerReply(Incr(d, h, c.key))
      [] c.op = "Decr"   -> IntegerReply(Decr(d, h, c.key))
      [] c.op = "LPush"  -> IntegerReply(LPush(d, h, c.key, c.values))
      [] c.op = "RPush"  -> IntegerReply(RPush(d, h, c.key, c.values))
      [] c.op = "LPop"   -> BulkReply(LPop(d, h, c.key))
      [] c.op = "RPop"   -> BulkReply(RPop(d, h, c.key))
      [] c.op = "LLen"   -> IntegerReply(LLen(d, h, c.key))
      [] c.op = "LIndex" -> BulkReply(LIndex(d, h, c.key, c.index))
      [] c.op = "LSet"   -> OKReply(LSet(d, h, c.key, c.index, c.value))
      [] c.op = "LRem"   -> IntegerReply(LRem(d, h, c.key, c.count, c.value))
      [] c.op = "LPushX" -> IntegerReply(LPushX(d, h, c.key, c.values))
      [] c.op = "RPushX" -> IntegerReply(RPushX(d, h, c.key, c.values))
      [] c.op = "LInsert" -> IntegerReply(LInsert(d, h, c.key, c.position, c.pivot, c.value))
      [] c.op = "LRange" -> ArrayReply(LRange(d, h, c.key, c.start, c.stop))
      [] c.op = "LTrim"  -> OKReply(LTrim(d, h, c.key, c.start, c.stop))
      [] c.op = "HSet"   -> IntegerReply(HSet(d, h, c.key, c.field, c.value))
      [] c.op = "HGet"   -> BulkReply(HGet(d, h, c.key, c.member))
      [] c.op = "HDel"   -> IntegerReply(HDel(d, h, c.key, c.values))
      [] c.op = "HExists" -> IntegerReply(HExists(d, h, c.key, c.member))
      [] c.op = "HLen"   -> IntegerReply(HLen(d, h, c.key))
      [] c.op = "HGetAll" -> ArrayReply(HGetAll(d, h, c.key, ord))
      [] c.op = "SAdd"   -> IntegerReply(SAdd(d, h, c.key, c.values))
      [] c.op = "SRem"   -> IntegerReply(SRem(d, h, c.key, c.values))
      [] c.op = "SIsMember" -> IntegerReply(SIsMember(d, h, c.key, c.member))
      [] c.op = "SCard"  -> IntegerReply(SCard(d, h, c.key))
      [] c.op = "SMembers" -> ArrayReply(SMembers(d, h, c.key, ord))
      [] c.op = "SPop"   -> ArrayReply(SPop(d, h, c.key, c.count, ord, rnd))
      [] c.op = "SRandMember" -> ArrayReply(SRandMember(d, h, c.key, c.count, ord, rnd))
      [] c.op = "SInter" -> ArrayReply(SInter(d, h, c.keys, ord))
      [] c.op = "SUnion" -> ArrayReply(SUnion(d, h, c.keys, ord))
      [] c.op = "SDiff"  -> ArrayReply(SDiff(d, h, c.keys, ord))
      [] c.op = "ZAdd"   -> IntegerReply(ZAdd(d, h, c.key, c.members))
      [] c.op = "ZScore" -> LET r == ZScore(d, h, c.key, c.member)
                            IN  Applied(r, IF r.err # <<>> THEN NewError(r.err)
                                           ELSE IF ~r.ret.found THEN NewBulk(<<>>)
                                           ELSE NewBulk(FormatFloat(r.ret.score)))
      [] c.op = "ZRem"   -> IntegerReply(ZRem(d, h, c.key, c.values))
      [] c.op = "ZCard"  -> IntegerReply(ZCard(d, h, c.key))
      [] c.op = "ZRange" -> ArrayReply(ZRange(d, h, c.key, c.start, c.stop, c.withScores, ord))
      [] c.op = "ZRangeByScore" ->
             ArrayReply(ZRangeByScore(d, h, c.key, c.min, c.max, c.offset, c.count, c.withScores, ord))
      [] c.op = "ZCount" -> IntegerReply(ZCount(d, h, c.key, c.min, c.max))
      [] c.op = "ZIncrBy" -> LET r == ZIncrBy(d, h, c.key, c.increment, c.member)
                             IN  Applied(r, IF r.err # <<>> THEN NewError(r.err)
                                            ELSE NewBulk(FormatFloat(r.ret)))
      [] c.op = "ZRank"  -> LET r == ZRank(d, h, c.key, c.member, ord)
                            IN  Applied(r, IF r.err # <<>> THEN NewError(r.err)
                                           ELSE IF ~r.ret.found THEN NewBulk(<<>>)
                                           ELSE NewInteger(r.ret.rank))
      [] c.op = "ZRevRank" -> LET r == ZRevRank(d, h, c.key, c.member, ord)
                              IN  Applied(r, IF r.err # <<>> THEN NewError(r.err)
                                             ELSE IF ~r.ret.found THEN NewBulk(<<>>)
                                             ELSE NewInteger(r.ret.rank))
      [] c.op = "ZRevRangeByScore" ->
             ArrayReply(ZRevRangeByScore(d, h, c.key, c.max, c.min, c.offset, c.count, c.withScores, ord))
      [] c.op = "ZRevRange" -> ArrayReply(ZRevRange(d, h, c.key, c.start, c.stop, c.withScores, ord))

\* ParseCommand: the request must be a non-empty array; the upper-cased Str of
\* its first element selects the constructor.
ParseCommand(respValue) ==
    IF respValue.Type # Array \/ Len(respValue.Array) = 0 THEN Bad(ErrFormat)
    ELSE LET cmdName == ToUpper(respValue.Array[1].Str)
             args    == Tail(respValue.Array)
         IN  CASE cmdName = Name.PING -> NewPingCommand(args)
               [] cmdName = Name.SET -> NewSetCommand(args)
               [] cmdName = Name.GET -> OneKey(args, "Get", "get", "GET")
               [] cmdName = Name.DEL -> ManyKeys(args, "Del", "del", "DEL")
               [] cmdName = Name.EXISTS -> ManyKeys(args, "Exists", "exists", "EXISTS")
               [] cmdName = Name.INCR -> OneKey(args, "Incr", "incr", "INCR")
               [] cmdName = Name.DECR -> OneKey(args, "Decr", "decr", "DECR")
               [] cmdName = Name.LPUSH -> KeyAndValues(args, "LPush", "lpush", "LPUSH")
               [] cmdName = Name.RPUSH -> KeyAndValues(args, "RPush", "rpush", "RPUSH")
               [] cmdName = Name.LPOP -> OneKey(args, "LPop", "lpop", "LPOP")
               [] cmdName = Name.RPOP -> OneKey(args, "RPop", "rpop", "RPOP")
               [] cmdName = Name.LLEN -> OneKey(args, "LLen", "llen", "LLEN")
               [] cmdName = Name.LINDEX -> NewLIndexCommand(args)
               [] cmdName = Name.LSET -> NewLSetCommand(args)
               [] cmdName = Name.LREM -> NewLRemCommand(args)
               [] cmdName = Name.LPUSHX -> KeyAndValues(args, "LPushX", "lpushx", "LPUSHX")
               [] cmdName = Name.RPUSHX -> KeyAndValues(args, "RPushX", "rpushx", "RPUSHX")
               [] cmdName = Name.LINSERT -> NewLInsertCommand(args)
               [] cmdName = Name.LRANGE -> KeyStartStop(args, "LRange", "lrange", "LRANGE")
               [] cmdName = Name.LTRIM -> KeyStartStop(args, "LTrim", "ltrim", "LTRIM")
               [] cmdName = Name.HSET -> NewHSetCommand(args)
               [] cmdName = Name.HGET -> KeyMember(args, "HGet", "hget", "HGET")
               [] cmdName = Name.HDEL -> KeyAndValues(args, "HDel", "hdel", "HDEL")
               [] cmdName = Name.HEXISTS -> KeyMember(args, "HExists", "hexists", "HEXISTS")
               [] cmdName = Name.HLEN -> OneKey(args, "HLen", "hlen", "HLEN")
               [] cmdName = Name.HGETALL -> OneKey(args, "HGetAll", "hgetall", "HGETALL")
               [] cmdName = Name.SADD -> KeyAndValues(args, "SAdd", "sadd", "SADD")
               [] cmdName = Name.SREM -> KeyAndValues(args, "SRem", "srem", "SREM")
               [] cmdName = Name.SISMEMBER -> KeyMember(args, "SIsMember", "sismember", "SISMEMBER")
               [] cmdName = Name.SCARD -> OneKey(args, "SCard", "scard", "SCARD")
               [] cmdName = Name.SMEMBERS -> OneKey(args, "SMembers", "smembers", "SMEMBERS")
               [] cmdName = Name.SPOP -> KeyCount(args, "SPop", "spop", "SPOP")
               [] cmdName = Name.SRANDMEMBER -> KeyCount(args, "SRandMember", "srandmember", "SRANDMEMBER")
               [] cmdName = Name.SINTER -> ManyKeys(args, "SInter", "sinter", "SINTER")
               [] cmdName = Name.SUNION -> ManyKeys(args, "SUnion", "sunion", "SUNION")
               [] cmdName = Name.SDIFF -> ManyKeys(args, "SDiff", "sdiff", "SDIFF")
               [] cmdName = Name.ZADD -> NewZAddCommand(args)
               [] cmdName = Name.ZSCORE -> KeyMember(args, "ZScore", "zscore", "ZSCORE")
               [] cmdName = Name.ZREM -> KeyAndValues(args, "ZRem", "zrem", "ZREM")
               [] cmdName = Name.ZCARD -> OneKey(args, "ZCard", "zcard", "ZCARD")
               [] cmdName = Name.ZRANGE -> KeyStartStopScores(args, "ZRange", "zrange", "ZRANGE")
               [] cmdName = Name.ZRANGEBYSCORE -> NewZRangeByScoreCommand(args)
               [] cmdName = Name.ZCOUNT -> NewZCountCommand(args)
               [] cmdName = Name.ZINCRBY -> NewZIncrByCommand(args)
               [] cmdName = Name.ZRANK -> KeyMember(args, "ZRank", "zrank", "ZRANK")
               [] cmdName = Name.ZREVRANK -> KeyMember(args, "ZRevRank", "zrevrank", "ZREVRANK")
               [] cmdName = Name.ZREVRANGEBYSCORE -> NewZRevRangeByScoreCommand(args)
               [] cmdName = Name.ZREVRANGE -> KeyStartStopScores(args, "ZRevRange", "zrevrange", "ZREVRANGE")
               [] OTHER -> Bad(<<"ERR unknown command '">> \o cmdName \o <<"'">>)

(***************************************************************************)
(* handleConnection, one connection.                                       *)
(***************************************************************************)
\* RespValue{}: no value.
Nothing == [Type |-> "", Str |-> <<>>, Num |-> 0, Array |-> <<>>]

\* result := cmd.Apply(s); WriteResp(writer, result); writer.Flush().  A panic
\* inside Apply is not recovered: nothing is written and the process dies.
Written(a) ==
    IF a.panic
    THEN [d |-> a.d, h |-> a.h, reply |-> Nothing, panic |-> TRUE, conn |-> "closed"]
    ELSE [d |-> a.d, h |-> a.h, reply |-> a.reply, panic |-> FALSE, conn |-> "open"]

\* A faulty handleConnection: after replying a parse error it returns, which
\* closes the connection, instead of continuing with the next request.
handleConnectionReturning(respValue, d, h, ord, rnd) ==
    LET p == ParseCommand(respValue)
    IN  IF ~p.ok
        THEN [d |-> d, h |-> h, reply |-> NewError(p.err), panic |-> FALSE, conn |-> "closed"]
        ELSE Written(Apply(p.cmd, d, h, ord, rnd))

\* One iteration of the loop of handleConnection on a decoded request: parse, then
\* either reply with the parse error and continue, or apply and reply.
handleConnection(respValue, d, h, ord, rnd) ==
    LET p == ParseCommand(respValue)
    IN  IF ~p.ok
        THEN [d |-> d, h |-> h, reply |-> NewError(p.err), panic |-> FALSE, conn |-> "open"]
        ELSE Written(Apply(p.cmd, d, h, ord, rnd))

\* The states the bounds of the model admit.
Bounded(d, h) ==
    \A k \in Keys :
        /\ Shape(d, h, k) = "list" => Len(Deref(d, h, k).l) <= MaxLen
        /\ Shape(d, h, k) = "zset" =>
               \A m \in DOMAIN Deref(d, h, k).z :
                   Deref(d, h, k).z[m] \in (-MaxScore)..MaxScore \cup {NaN}

\* A client request: an array of bulk strings, the command name first.
Request(name, args) ==
    NewArray(<<NewBulk(name)>> \o [i \in 1..Len(args) |-> NewBulk(args[i])])

Init ==
    /\ data = [k \in Keys |-> NoEntry]
    /\ heap = [id \in ObjIds |-> Free]
    /\ crashed = FALSE
    /\ req = Nothing
    /\ reply = Nothing
    /\ conn = "open"
    /\ thr = <<>>
    /\ net = <<>>

\* The connection reads respValue and runs one iteration of its loop on it; ords
\* and rnds are the iteration orders and random numbers the commands of the
\* request's family can observe.
Handle(respValue, ords, rnds) ==
    /\ ~crashed /\ conn = "open" /\ req = Nothing
    /\ \E ord \in ords, rnd \in rnds :
          \E r \in {handleConnection(respValue, data, heap, ord, rnd)} :
              /\ Bounded(r.d, r.h)
              /\ data' = r.d
              /\ heap' = Sweep(r.d, r.h, {})
              /\ crashed' = r.panic
              /\ req' = respValue
              /\ reply' = r.reply
              /\ conn' = r.conn
    /\ UNCHANGED <<thr, net>>

\* The iteration is over: its variables go out of scope and the loop reads again.
Loop ==
    /\ ~crashed /\ conn = "open" /\ req # Nothing
    /\ req' = Nothing /\ reply' = Nothing
    /\ UNCHANGED <<data, heap, crashed, conn, thr, net>>

\* ReadResp returns an error (the client closed the connection): handleConnection
\* returns and the deferred conn.Close() runs.
Disconnect ==
    /\ ~crashed /\ conn = "open" /\ req = Nothing
    /\ conn' = "closed"
    /\ UNCHANGED <<data, heap, crashed, req, reply, thr, net>>

(***************************************************************************)
(* The requests the client sends.                                          *)
(***************************************************************************)
\* The key the single-key requests are about; the other keys are only created,
\* by one request of each family, and used by the several-keys requests.
Main == KeyNames[1]
Others == Keys \ {Main}
\* One key, or two keys (possibly the same one twice).
KeyArgs == {<<k>> : k \in Keys} \cup {<<k1, k2>> : k1, k2 \in Keys}
\* One value, or the two values.
ValArgs == {<<v>> : v \in Vals} \cup {<<<<"a">>, <<"1">>>>}
\* Decimal texts of indexes and counts.
IntArgs == {<<"0">>, <<"1">>, <<"-", "1">>}

StringRequests ==
    {Request(Name.PING, <<>>), Request(<<"p","i","n","g">>, << <<"a">> >>)}
    \cup {Request(Name.SET, <<k, v>>) : k \in {Main}, v \in Vals}
    \cup {Request(n, <<k>>) : n \in {Name.GET, Name.INCR, Name.DECR}, k \in {Main}}
    \cup {Request(n, ks) : n \in {Name.DEL, Name.EXISTS}, ks \in KeyArgs}
    \cup {Request(Name.SET, <<k, <<"a">>>>) : k \in Others}

ListRequests ==
    {Request(n, <<k>> \o vs) :
        n \in {Name.LPUSH, Name.RPUSH, Name.LPUSHX, Name.RPUSHX}, k \in {Main}, vs \in ValArgs}
    \cup {Request(n, <<k>>) : n \in {Name.LPOP, Name.RPOP, Name.LLEN}, k \in {Main}}
    \cup {Request(Name.LINDEX, <<k, i>>) : k \in {Main}, i \in IntArgs}
    \cup {Request(Name.LSET, <<k, i, <<"1">>>>) : k \in {Main}, i \in IntArgs}
    \cup {Request(Name.LREM, <<k, c, v>>) : k \in {Main}, c \in IntArgs, v \in Vals}
    \cup {Request(Name.LINSERT, <<k, pos, <<"a">>, <<"1">>>>) :
             k \in {Main}, pos \in {BEFORE, <<"a","f","t","e","r">>}}
    \cup {Request(n, <<k, i, <<"-", "1">>>>) :
             n \in {Name.LRANGE, Name.LTRIM}, k \in {Main}, i \in IntArgs}
    \cup {Request(Name.RPUSH, <<k, <<"a">>>>) : k \in Others}

HashRequests ==
    {Request(Name.HSET, <<k, f, v>>) : k \in {Main}, f \in Vals, v \in Vals}
    \cup {Request(n, <<k, f>>) : n \in {Name.HGET, Name.HEXISTS}, k \in {Main}, f \in Vals}
    \cup {Request(Name.HDEL, <<k>> \o fs) : k \in {Main}, fs \in ValArgs}
    \cup {Request(n, <<k>>) : n \in {Name.HLEN, Name.HGETALL}, k \in {Main}}

SetRequests ==
    {Request(n, <<k>> \o ms) : n \in {Name.SADD, Name.SREM}, k \in {Main}, ms \in ValArgs}
    \cup {Request(Name.SISMEMBER, <<k, m>>) : k \in {Main}, m \in Vals}
    \cup {Request(n, <<k>>) :
             n \in {Name.SCARD, Name.SMEMBERS, Name.SPOP, Name.SRANDMEMBER}, k \in {Main}}
    \cup {Request(n, <<k, c>>) :
             n \in {Name.SPOP, Name.SRANDMEMBER}, k \in {Main}, c \in IntArgs}
    \cup {Request(n, ks) : n \in {Name.SINTER, Name.SUNION, Name.SDIFF}, ks \in KeyArgs}
    \cup {Request(Name.SADD, <<k, <<"a">>>>) : k \in Others}

ZSetRequests ==
    {Request(Name.ZADD, <<k, sc, m>>) : k \in {Main}, sc \in {<<"1">>, <<"2">>}, m \in Vals}
    \cup {Request(Name.ZADD, <<k, <<"1">>, <<"a">>, <<"2">>, <<"1">>>>) : k \in {Main}}
    \cup {Request(n, <<k, m>>) :
             n \in {Name.ZSCORE, Name.ZRANK, Name.ZREVRANK}, k \in {Main}, m \in Vals}
    \cup {Request(Name.ZREM, <<k>> \o ms) : k \in {Main}, ms \in ValArgs}
    \cup {Request(Name.ZCARD, <<k>>) : k \in {Main}}
    \cup {Request(n, <<k, <<"0">>, <<"-", "1">>>> \o opt) :
             n \in {Name.ZRANGE, Name.ZREVRANGE}, k \in {Main}, opt \in {<<>>, <<WITHSCORES>>}}
    \cup {Request(Name.ZRANGEBYSCORE, <<k, <<"1">>, <<"2">>>> \o opt) :
             k \in {Main}, opt \in {<<>>, <<LIMIT, <<"1">>, <<"1">>, WITHSCORES>>}}
    \cup {Request(Name.ZREVRANGEBYSCORE, <<k, <<"2">>, <<"1">>>> \o opt) :
             k \in {Main}, opt \in {<<>>, <<LIMIT, <<"1">>, <<"1">>, WITHSCORES>>}}
    \cup {Request(Name.ZCOUNT, <<k, <<"1">>, <<"2">>>>) : k \in {Main}}
    \cup {Request(Name.ZINCRBY, <<k, inc, m>>) :
             k \in {Main}, inc \in {<<"1">>, <<"-", "1">>}, m \in Vals}

\* Requests that are not a command with its arguments: not an array, an empty
\* array, an unknown name, a wrong number of arguments, an element that is not a
\* bulk string, a text that is not a number, an unknown keyword.
InvalidRequests ==
    {NewBulk(Name.PING), NewArray(<<>>), Request(<<"n","o","p">>, <<>>),
     Request(Name.GET, <<>>), Request(Name.SET, << <<"k">> >>),
     Request(Name.LPUSH, << <<"k">> >>), Request(Name.ZADD, << <<"k">>, <<"1">> >>),
     NewArray(<<NewBulk(Name.GET), NewInteger(1)>>),
     NewArray(<<NewBulk(Name.SADD), NewBulk(<<"k">>), NewInteger(1)>>),
     NewArray(<<NewString(Name.SET), NewBulk(<<"k">>), NewBulk(<<"a">>)>>),
     NewArray(<<NewInteger(1)>>),
     Request(Name.LINDEX, << <<"k">>, <<"a">> >>),
     Request(Name.LREM, << <<"k">>, <<"4">>, <<"a">> >>),
     Request(Name.ZADD, << <<"k">>, <<"a">>, <<"a">> >>),
     Request(Name.LINSERT, << <<"k">>, <<"a">>, <<"a">>, <<"a">> >>),
     Request(Name.ZRANGE, << <<"k">>, <<"0">>, <<"1">>, <<"a">> >>),
     Request(Name.ZRANGEBYSCORE, << <<"k">>, <<"0">>, <<"1">>, LIMIT, <<"0">> >>)}

\* One action per family of commands.
StringCommand  == \E r \in StringRequests : Handle(r, {<<>>}, {<<>>})
ListCommand    == \E r \in ListRequests : Handle(r, {<<>>}, {<<>>})
HashCommand    == \E r \in HashRequests : Handle(r, Orders, {<<>>})
SetCommand     == \E r \in SetRequests : Handle(r, Orders, Picks)
ZSetCommand    == \E r \in ZSetRequests : Handle(r, Orders, {<<>>})
InvalidCommand == \E r \in InvalidRequests : Handle(r, {<<>>}, {<<>>})

Next ==
    \/ StringCommand
    \/ ListCommand
    \/ HashCommand
    \/ SetCommand
    \/ ZSetCommand
    \/ InvalidCommand
    \/ Loop
    \/ Disconnect

Spec == Init /\ [][Next]_vars

(***************************************************************************)
(* Properties of one connection.                                           *)
(***************************************************************************)
Collections == {"list", "hash", "set", "zset"}

\* The registered command a decoded request names, and the keys it names.
IsRequest(r, names) ==
    r.Type = Array /\ Len(r.Array) > 1 /\ ToUpper(r.Array[1].Str) \in names
KeysOf(r) ==
    IF IsRequest(r, {Name.DEL, Name.EXISTS, Name.SINTER, Name.SUNION, Name.SDIFF})
    THEN {r.Array[i].Str : i \in 2..Len(r.Array)}
    ELSE {r.Array[2].Str}

\* The commands of each shape.
ListNames == {Name.LPUSH, Name.RPUSH, Name.LPOP, Name.RPOP, Name.LLEN, Name.LINDEX, Name.LSET,
              Name.LREM, Name.LPUSHX, Name.RPUSHX, Name.LINSERT, Name.LRANGE, Name.LTRIM}
HashNames == {Name.HSET, Name.HGET, Name.HDEL, Name.HEXISTS, Name.HLEN, Name.HGETALL}
SetNames  == {Name.SADD, Name.SREM, Name.SISMEMBER, Name.SCARD, Name.SMEMBERS, Name.SPOP,
              Name.SRANDMEMBER, Name.SINTER, Name.SUNION, Name.SDIFF}
ZSetNames == {Name.ZADD, Name.ZSCORE, Name.ZREM, Name.ZCARD, Name.ZRANGE, Name.ZRANGEBYSCORE,
              Name.ZCOUNT, Name.ZINCRBY, Name.ZRANK, Name.ZREVRANK, Name.ZREVRANGEBYSCORE,
              Name.ZREVRANGE}
NamesOf(shape) ==
    CASE shape = "list" -> ListNames
      [] shape = "hash" -> HashNames
      [] shape = "set"  -> SetNames
      [] shape = "zset" -> ZSetNames

\* The number of elements of the collection stored under k.
Count(d, h, k) ==
    CASE Shape(d, h, k) = "list" -> Len(Deref(d, h, k).l)
      [] Shape(d, h, k) = "hash" -> Cardinality(DOMAIN Deref(d, h, k).h)
      [] Shape(d, h, k) = "set"  -> Cardinality(Deref(d, h, k).m)
      [] Shape(d, h, k) = "zset" -> Cardinality(DOMAIN Deref(d, h, k).z)

\* This step is an iteration of the connection's loop on a valid request.
Executes == req = Nothing /\ req' # Nothing /\ ParseCommand(req').ok

\* C1 (as stated): no key present in the keyspace holds a list, hash, set or sorted
\* set with zero elements.
C1_EmptyDelete ==
    \A k \in Keys : Shape(data, heap, k) \in Collections => Count(data, heap, k) > 0

\* C5 (as stated): a list, hash, set or sorted-set command that names a key holding
\* a value of another shape replies WRONGTYPE.
C5_TypePurity ==
    [][\A shape \in Collections : \A k \in Keys :
          (/\ Executes
           /\ IsRequest(req', NamesOf(shape))
           /\ k \in KeysOf(req')
           /\ Shape(data, heap, k) \notin {"none", shape})
          => reply' = NewError(WrongType)]_vars

\* C6 (as stated): GET on a key holding a list, hash, set or sorted set replies
\* null-bulk, as for an absent key, and leaves the keyspace unchanged.
C6_GetOnCollection ==
    [][\A k \in Keys :
          (/\ Executes
           /\ IsRequest(req', {Name.GET})
           /\ k \in KeysOf(req')
           /\ Shape(data, heap, k) \in Collections)
          => (reply' = NewBulk(<<>>) /\ data' = data /\ heap' = heap)]_vars

\* C7 (as stated): INCR or DECR on a key holding a list, hash, set or sorted set
\* replies an error and leaves the stored collection as it was.
C7_IncrOnCollection ==
    [][\A k \in Keys :
          (/\ Executes
           /\ IsRequest(req', {Name.INCR, Name.DECR})
           /\ k \in KeysOf(req')
           /\ Shape(data, heap, k) \in Collections)
          => (reply'.Type = Error /\ data' = data /\ heap' = heap)]_vars

\* C8: a command whose reply is an error leaves the whole keyspace as it was.
C8_ErrorLeavesKeyspace ==
    [][reply'.Type = Error => (data' = data /\ heap' = heap)]_vars

\* An execution error (the index of LSET is out of range) was replied while the
\* key holds a list.
C8_Witness ==
    /\ reply = NewError(ErrIndex)
    /\ IsRequest(req, {Name.LSET})
    /\ Shape(data, heap, Main) = "list"

\* C9 (as stated): each decoded request produces exactly one reply.
C9_OneReplyPerRequest == req # Nothing => reply # Nothing

\* C10: an error reply, from the validator or from the execution, leaves the
\* connection open and its loop running: the iteration ends, and at the head of
\* the loop the next request is read and answered.
C10_ErrorKeepsConnection ==
    /\ reply.Type = Error => (conn = "open" /\ ~crashed /\ ENABLED Loop)
    /\ (conn = "open" /\ ~crashed /\ req = Nothing) => ENABLED StringCommand

\* A WRONGTYPE error was replied to a valid request and the connection is open.
C10_Witness ==
    /\ reply = NewError(WrongType)
    /\ ParseCommand(req).ok
    /\ conn = "open"

(***************************************************************************)
(* Two connections: each goroutine runs its commands one Storage step at a *)
(* time.  The steps are the calls of sync.Map, which are atomic, and the   *)
(* accesses to the list or map the key refers to, which nothing guards.    *)
(***************************************************************************)
Conns == 1..NumConns

\* A goroutine between two commands.
Idle(prog) ==
    [prog |-> prog, pc |-> "idle", ref |-> 0, i |-> 0, n |-> 0,
     val |-> [val |-> <<>>, ok |-> FALSE], log |-> <<>>]

\* The command the goroutine runs (the head of what it still has to run), and
\* the goroutine once that command returned result.
Running(t) == Head(t.prog)
Finish(t, result) ==
    [Idle(Tail(t.prog)) EXCEPT !.log = Append(t.log, [cmd |-> Running(t), reply |-> result])]

\* The objects the goroutines hold references to.
Roots(th) == {th[c].ref : c \in Conns} \ {0}

\* What the connections send: the commands of each connection, in order.
Scenarios ==
    LET k == Main
        C(name, args) == ParseCommand(Request(name, args)).cmd
    IN  { << <<C(Name.INCR, <<k>>)>>, <<C(Name.INCR, <<k>>)>> >>,
          << <<C(Name.INCR, <<k>>), C(Name.INCR, <<k>>)>>, <<C(Name.INCR, <<k>>)>> >>,
          << <<C(Name.SADD, <<k, <<"a">>>>), C(Name.SREM, <<k, <<"a">>>>)>>,
             <<C(Name.SADD, <<k, <<"1">>>>)>> >>,
          << <<C(Name.RPUSH, <<k, <<"a">>, <<"b">>>>)>>,
             <<C(Name.RPUSH, <<k, <<"c">>, <<"d">>>>)>> >> }

InitConc ==
    /\ data = [k \in Keys |-> NoEntry]
    /\ heap = [id \in ObjIds |-> Free]
    /\ crashed = FALSE
    /\ req = Nothing
    /\ reply = Nothing
    /\ conn = "open"
    /\ thr \in {[c \in Conns |-> Idle(IF c \in DOMAIN s THEN s[c] ELSE <<>>)] : s \in Scenarios}
    /\ net = <<>>

\* The goroutine of connection c is idle and its next command is one of ops.
Starts(c, ops) ==
    /\ ~crashed
    /\ thr[c].pc = "idle"
    /\ thr[c].prog # <<>>
    /\ Running(thr[c]).op \in ops

\* The step of connection c leaves the storage (d, h) and the goroutine as t.
Step(c, d, h, t) ==
    LET th == [thr EXCEPT ![c] = t]
    IN  /\ thr' = th
        /\ data' = d
        /\ heap' = Sweep(d, h, Roots(th))
        /\ UNCHANGED <<crashed, req, reply, conn, net>>

\* Incr / Decr, first step: val, ok := s.Get(key).
IncrGet(c) ==
    /\ Starts(c, {"Incr", "Decr"})
    /\ LET g == Get(data, heap, Running(thr[c]).key)
       IN  IF g.panic
           THEN crashed' = TRUE /\ UNCHANGED <<data, heap, req, reply, conn, thr, net>>
           ELSE Step(c, data, heap, [thr[c] EXCEPT !.pc = "IncrSet", !.val = g.ret])

\* Incr / Decr, second step: parse what was read, add, s.Set(key, ...), return.
IncrSet(c) ==
    /\ ~crashed
    /\ thr[c].pc = "IncrSet"
    /\ LET t == thr[c]
           p == IF t.val.ok THEN ParseInt(t.val.val) ELSE [ok |-> TRUE, n |-> 0]
           num == Wrap(p.n + (IF Running(t).op = "Incr" THEN 1 ELSE -1))
       IN  IF ~p.ok
           THEN Step(c, data, heap, Finish(t, NewError(NotInteger)))
           ELSE Step(c, Set(data, heap, Running(t).key, FormatInt(num)).d, heap,
                     Finish(t, NewInteger(num)))

\* SAdd, first step: s.data.LoadOrStore(key, make(map[string]struct{})) and the
\* type assertion.
SAddLoad(c) ==
    /\ Starts(c, {"SAdd"})
    /\ LET t == thr[c]
           key == Running(t).key
           s == LoadOrStore(data, heap, key, SetObj({}))
       IN  IF Shape(s.d, s.h, key) # "set"
           THEN Step(c, data, heap, Finish(t, NewError(WrongType)))
           ELSE Step(c, s.d, s.h, [t EXCEPT !.pc = "SAddLoop", !.ref = s.d[key].id, !.i = 1])

\* SAdd, one round of the loop over members, on the map the goroutine holds; the
\* command returns after the last round.
SAddLoop(c) ==
    /\ ~crashed
    /\ thr[c].pc = "SAddLoop"
    /\ LET t == thr[c]
           member == Running(t).values[t.i]
           set == heap[t.ref].m
           n == IF member \in set THEN t.n ELSE t.n + 1
           h == [heap EXCEPT ![t.ref] = SetObj(set \cup {member})]
       IN  IF t.i = Len(Running(t).values)
           THEN Step(c, data, h, Finish(t, NewInteger(n)))
           ELSE Step(c, data, h, [t EXCEPT !.i = t.i + 1, !.n = n])

\* SRem, first step: s.data.Load(key) and the type assertion.
SRemLoad(c) ==
    /\ Starts(c, {"SRem"})
    /\ LET t == thr[c]
           key == Running(t).key
       IN  IF data[key].t = "none" THEN Step(c, data, heap, Finish(t, NewInteger(0)))
           ELSE IF Shape(data, heap, key) # "set"
           THEN Step(c, data, heap, Finish(t, NewError(WrongType)))
           ELSE Step(c, data, heap, [t EXCEPT !.pc = "SRemLoop", !.ref = data[key].id, !.i = 1])

\* SRem, one round of the loop over members.
SRemLoop(c) ==
    /\ ~crashed
    /\ thr[c].pc = "SRemLoop"
    /\ LET t == thr[c]
           member == Running(t).values[t.i]
           set == heap[t.ref].m
           n == IF member \in set THEN t.n + 1 ELSE t.n
           h == [heap EXCEPT ![t.ref] = SetObj(set \ {member})]
       IN  Step(c, data, h,
                [t EXCEPT !.i = t.i + 1, !.n = n,
                          !.pc = IF t.i = Len(Running(t).values) THEN "SRemLen" ELSE "SRemLoop"])

\* SRem: if len(set) == 0 ...
SRemLen(c) ==
    /\ ~crashed
    /\ thr[c].pc = "SRemLen"
    /\ LET t == thr[c]
       IN  IF heap[t.ref].m = {}
           THEN Step(c, data, heap, [t EXCEPT !.pc = "SRemDelete"])
           ELSE Step(c, data, heap, Finish(t, NewInteger(t.n)))

\* SRem: ... s.data.Delete(key), whatever the key holds by now.
SRemDelete(c) ==
    /\ ~crashed
    /\ thr[c].pc = "SRemDelete"
    /\ LET t == thr[c]
       IN  Step(c, Delete(data, Running(t).key), heap, Finish(t, NewInteger(t.n)))

\* Two goroutines are about to access the same map, one of them to write it: the
\* runtime may detect it and throw ("concurrent map writes", "concurrent map read
\* and map write"), which ends the process.
Writes(t) ==
    \/ t.pc = "SAddLoop" /\ Running(t).values[t.i] \notin heap[t.ref].m
    \/ t.pc = "SRemLoop" /\ Running(t).values[t.i] \in heap[t.ref].m
MapFault(c) ==
    /\ ~crashed
    /\ thr[c].pc \in {"SAddLoop", "SRemLoop", "SRemLen"}
    /\ \E c2 \in Conns \ {c} :
          /\ thr[c2].pc \in {"SAddLoop", "SRemLoop", "SRemLen"}
          /\ thr[c2].ref = thr[c].ref
          /\ Writes(thr[c]) \/ Writes(thr[c2])
    /\ crashed' = TRUE
    /\ UNCHANGED <<data, heap, req, reply, conn, thr, net>>

\* RPush, first step: s.data.LoadOrStore(key, list.New()) and the type assertion.
RPushLoad(c) ==
    /\ Starts(c, {"RPush"})
    /\ LET t == thr[c]
           key == Running(t).key
           s == LoadOrStore(data, heap, key, ListObj(<<>>))
       IN  IF Shape(s.d, s.h, key) # "list"
           THEN Step(c, data, heap, Finish(t, NewError(WrongType)))
           ELSE Step(c, s.d, s.h, [t EXCEPT !.pc = "RPushLoop", !.ref = s.d[key].id, !.i = 1])

\* The goroutine after one lst.PushBack(val) of its loop.
Pushed(t) ==
    [t EXCEPT !.i = t.i + 1,
              !.pc = IF t.i = Len(Running(t).values) THEN "RPushLen" ELSE "RPushLoop"]

\* RPush, one round of the loop: lst.PushBack(val).
RPushLoop(c) ==
    /\ ~crashed
    /\ thr[c].pc = "RPushLoop"
    /\ LET t == thr[c]
           l == heap[t.ref].l
       IN  Step(c, data, [heap EXCEPT ![t.ref] = ListObj(Append(l, Running(t).values[t.i]))],
                Pushed(t))

\* Two PushBack calls on the same list overlap: both link their element after the
\* same last element, and the element of c2 ends up outside the list.
RPushRace(c) ==
    /\ ~crashed
    /\ thr[c].pc = "RPushLoop"
    /\ \E c2 \in Conns \ {c} :
          /\ thr[c2].pc = "RPushLoop"
          /\ thr[c2].ref = thr[c].ref
          /\ LET t == thr[c]
                 l == heap[t.ref].l
                 th == [thr EXCEPT ![c] = Pushed(t), ![c2] = Pushed(thr[c2])]
                 h == [heap EXCEPT ![t.ref] = ListObj(Append(l, Running(t).values[t.i]))]
             IN  /\ thr' = th
                 /\ heap' = Sweep(data, h, Roots(th))
                 /\ UNCHANGED <<data, crashed, req, reply, conn, net>>

\* RPush, last step: return int64(lst.Len()).
RPushLen(c) ==
    /\ ~crashed
    /\ thr[c].pc = "RPushLen"
    /\ Step(c, data, heap, Finish(thr[c], NewInteger(Len(heap[thr[c].ref].l))))

NextConc ==
    \/ \E c \in Conns : IncrGet(c)
    \/ \E c \in Conns : IncrSet(c)
    \/ \E c \in Conns : SAddLoad(c)
    \/ \E c \in Conns : SAddLoop(c)
    \/ \E c \in Conns : SRemLoad(c)
    \/ \E c \in Conns : SRemLoop(c)
    \/ \E c \in Conns : SRemLen(c)
    \/ \E c \in Conns : SRemDelete(c)
    \/ \E c \in Conns : MapFault(c)
    \/ \E c \in Conns : RPushLoad(c)
    \/ \E c \in Conns : RPushLoop(c)
    \/ \E c \in Conns : RPushRace(c)
    \/ \E c \in Conns : RPushLen(c)

SpecConc == InitConc /\ [][NextConc]_vars

(***************************************************************************)
(* Properties of two connections.                                          *)
(***************************************************************************)
\* Every connection got the reply of its last command.
Done == \A c \in Conns : thr[c].pc = "idle" /\ thr[c].prog = <<>>

\* The commands that were run, each with its reply.
Log == UNION {{thr[c].log[i] : i \in DOMAIN thr[c].log} : c \in Conns}
Ran(ops) == Log # {} /\ \A e \in Log : e.cmd.op \in ops

\* C2 (as stated): after N concurrent INCR of an absent key the stored value is
\* N and the N replies are exactly 1 .. N.
C2_NoLostUpdate ==
    (Done /\ ~crashed /\ Ran({"Incr"})) =>
        LET N == Cardinality({<<c, i>> \in Conns \X (1..MaxInt64) : i \in DOMAIN thr[c].log})
        IN  /\ data[Main] = StrEntry(FormatInt(N))
            /\ \A v \in 1..N : \E e \in Log : e.reply = NewInteger(v)

\* C3 (as stated): once all commands have replied, a member a successful SADD
\* inserted, and no command removed, is present under the key, also when a
\* concurrent SREM removed the last other member.
C3_InsertNotLost ==
    (Done /\ ~crashed) =>
        \A e \in Log :
            (e.cmd.op = "SAdd" /\ e.reply.Type = Integer) =>
                \A i \in DOMAIN e.cmd.values :
                    (\A r \in Log : r.cmd.op = "SRem" =>
                         \A j \in DOMAIN r.cmd.values : r.cmd.values[j] # e.cmd.values[i])
                    => /\ Shape(data, heap, e.cmd.key) = "set"
                       /\ e.cmd.values[i] \in Deref(data, heap, e.cmd.key).m

\* C4 (as stated): after two concurrent RPUSH the list is the values of one
\* followed by the values of the other, and each reply is the length of the list
\* right after that command's values.
C4_PushSerialized ==
    (Done /\ ~crashed /\ Ran({"RPush"})) =>
        \E c1, c2 \in Conns :
            /\ c1 # c2
            /\ \A c \in Conns \ {c1, c2} : thr[c].log = <<>>
            /\ Len(thr[c1].log) = 1 /\ Len(thr[c2].log) = 1
            /\ LET e1 == thr[c1].log[1]
                   e2 == thr[c2].log[1]
               IN  /\ Shape(data, heap, Main) = "list"
                   /\ Deref(data, heap, Main).l = e1.cmd.values \o e2.cmd.values
                   /\ e1.reply = NewInteger(Len(e1.cmd.values))
                   /\ e2.reply = NewInteger(Len(e1.cmd.values) + Len(e2.cmd.values))

(***************************************************************************)
(* SpecWire: connections at the level of bytes.  Each client sends a        *)
(* pipeline of frames and then closes its sending side; the server decodes, *)
(* executes and answers one frame per iteration of handleConnection.        *)
(***************************************************************************)
\* A connection: rd the bytes received and not yet consumed by ReadResp, out the
\* bytes delivered to the client, werr the error bufio.Writer keeps once a write
\* to the socket failed, up whether writes to the socket still succeed, st
\* whether handleConnection runs ("open") or returned and closed the socket.
Socket(bytes) == [rd |-> bytes, out |-> <<>>, werr |-> FALSE, up |-> TRUE, st |-> "open"]

\* WriteResp(writer, reply) and writer.Flush() on connection n.  Once the writer
\* holds an error WriteResp fails: the loop returns if the reply is the result of
\* a command, and ignores the failure if it is the error of ParseCommand.  A
\* reply fits the writer's buffer, so the socket is written by Flush alone, whose
\* error is dropped.
Flushed(n, parsed, result) ==
    IF n.werr \/ WriteResp(result).err
    THEN IF parsed THEN [n EXCEPT !.st = "closed"] ELSE n
    ELSE IF n.up THEN [n EXCEPT !.out = @ \o WriteResp(result).out]
    ELSE [n EXCEPT !.werr = TRUE]

\* The rest of the iteration once the request is decoded; r is what the
\* iteration did to the storage and the reply it made.
Answered(n, parsed, r) ==
    IF r.panic THEN [d |-> r.d, h |-> r.h, n |-> n, panic |-> TRUE]
    ELSE [d |-> r.d, h |-> r.h, n |-> Flushed(n, parsed, r.reply), panic |-> FALSE]

\* One iteration of the loop of handleConnection on connection n: ReadResp, where
\* an error ends the loop and a panic the process, then ParseCommand, Apply,
\* WriteResp and Flush.
Iterate(n, d, h) ==
    IF ReadResp(n.rd).kind = "panic" THEN [d |-> d, h |-> h, n |-> n, panic |-> TRUE]
    ELSE IF ReadResp(n.rd).kind = "error"
    THEN [d |-> d, h |-> h, n |-> [n EXCEPT !.st = "closed"], panic |-> FALSE]
    ELSE Answered([n EXCEPT !.rd = ReadResp(n.rd).rest],
                  ParseCommand(ReadResp(n.rd).val).ok,
                  handleConnection(ReadResp(n.rd).val, d, h, <<>>, <<>>))

\* The frame a client sends for a value, and the bytes of a pipeline of requests.
Frame(v) == WriteResp(v).out
Pipeline(rs) == Concat([i \in 1..Len(rs) |-> Frame(rs[i])])

\* Frames of the protocol that are no requests: the null and the empty bulk
\* string, the null and the empty array, a simple string, an integer, an error,
\* an array inside an array.
NullBulk  == <<Bulk, "-", "1">> \o CRLF
NullArray == <<Array, "-", "1">> \o CRLF
WellFormed ==
    {NullBulk, Frame(NewBulk(<<>>)), NullArray, Frame(NewArray(<<>>)),
     Frame(NewString(OK)), Frame(NewInteger(-1)), Frame(NewError(<<"e">>)),
     Frame(NewArray(<<NewArray(<<NewBulk(<<"a">>)>>), NewInteger(1)>>))}

\* Bytes that are no frame: an unknown prefix, a length that is no number, a
\* length below -1, a line of the one byte LF, a bulk string cut short.
Malformed ==
    {<<"?">> \o CRLF, <<Bulk, "x">> \o CRLF, <<Bulk, "-", "2">> \o CRLF,
     <<Array, "-", "2">> \o CRLF, <<String, LF>>, <<Array, "1">> \o CRLF \o <<Bulk, "9">>}

\* What a client sends before it closes its sending side.
Streams ==
    {<<>>,
     Pipeline(<<Request(Name.SET, <<Main, <<"a">>>>), Request(Name.INCR, <<KeyNames[2]>>)>>),
     Pipeline(<<Request(<<"n","o","p">>, <<>>), Request(Name.SET, <<Main, <<"1">>>>)>>),
     Pipeline(<<Request(Name.GET, <<Main>>)>>),
     Pipeline(<<Request(Name.SET, <<Main, <<>>>>), Request(Name.GET, <<Main>>)>>),
     Pipeline(<<Request(Name.RPUSH, <<Main, <<>>>>), Request(Name.LPOP, <<Main>>),
                Request(Name.RPOP, <<Main>>)>>),
     Pipeline(<<Request(Name.HSET, <<Main, <<"a">>, <<>>>>),
                Request(Name.HGET, <<Main, <<"a">>>>), Request(Name.HGET, <<Main, <<"1">>>>)>>),
     Pipeline(<<Request(Name.LPUSH, <<Main, <<"a">>>>), Request(Name.LINDEX, <<Main, <<"1">>>>)>>)}
    \cup {Pipeline(<<Request(Name.PING, <<>>)>>) \o b : b \in Malformed}
    \cup {b \o Pipeline(<<Request(Name.PING, <<>>)>>) : b \in WellFormed}

InitWire ==
    /\ data = [k \in Keys |-> NoEntry]
    /\ heap = [id \in ObjIds |-> Free]
    /\ crashed = FALSE
    /\ req = Nothing
    /\ reply = Nothing
    /\ conn = "open"
    /\ thr = <<>>
    /\ net \in [Conns -> {Socket(b) : b \in Streams}]

\* The goroutine of connection c runs one iteration of its loop.
Serve(c) ==
    /\ ~crashed /\ net[c].st = "open"
    /\ \E r \in {Iterate(net[c], data, heap)} :
          /\ data' = r.d
          /\ heap' = Sweep(r.d, r.h, {})
          /\ crashed' = r.panic
          /\ net' = [net EXCEPT ![c] = r.n]
    /\ UNCHANGED <<req, reply, conn, thr>>

\* The client of connection c stops receiving (it resets the connection): from
\* now on the server's writes to the socket fail, while the requests the server
\* already received stay in its reader.
Reset(c) ==
    /\ ~crashed /\ net[c].st = "open" /\ net[c].up
    /\ net' = [net EXCEPT ![c].up = FALSE]
    /\ UNCHANGED <<data, heap, crashed, req, reply, conn, thr>>

NextWire ==
    \/ \E c \in Conns : Serve(c)
    \/ \E c \in Conns : Reset(c)

SpecWire == InitWire /\ [][NextWire]_vars

(***************************************************************************)
(* Properties of the codec and of the connections at the level of bytes.   *)
(***************************************************************************)
\* The bytes the step delivered to the client of connection c.
Delivered(c) == SubSeq(net'[c].out, Len(net[c].out) + 1, Len(net'[c].out))

\* The bytes of the frame ReadResp consumes next on connection c.
NextFrame(c) == SubSeq(net[c].rd, 1, Len(net[c].rd) - Len(ReadResp(net[c].rd).rest))

\* The step is an iteration of connection c that consumed a frame and whose
\* reply reached the client.
Replied(c) == net'[c].rd # net[c].rd /\ net[c].up /\ ~net[c].werr

\* C11: on any bytes the decoder returns a value or a protocol error, never
\* anything else; and the iteration of a connection whose decoder returns a
\* protocol error closes that connection, writes nothing, executes nothing, and
\* leaves the keyspace, the process and the other connections as they were.
C11_ProtocolError ==
    [][\A c \in Conns : (~crashed /\ net[c].st = "open") =>
          /\ ReadResp(net[c].rd).kind \in {"value", "error"}
          /\ (ReadResp(net[c].rd).kind = "error" /\ net'[c] # net[c] /\ net'[c].up = net[c].up)
                => /\ net'[c].st = "closed"
                   /\ net'[c].out = net[c].out
                   /\ data' = data /\ heap' = heap /\ ~crashed'
                   /\ \A o \in Conns \ {c} : net'[o] = net[o]]_vars

\* C12: the step in which a write of a reply fails on a connection leaves the
\* process running and the other connections as they were, and from then on that
\* connection reads and executes no further request.
C12_WriteFailureFatal ==
    [][\A c \in Conns : ~crashed =>
          /\ (~net[c].werr /\ net'[c].werr) =>
                 (~crashed' /\ \A o \in Conns \ {c} : net'[o] = net[o])
          /\ net[c].werr => net'[c].rd = net[c].rd]_vars

\* C13: every value the decoder returns is what the decoder returns on the
\* encoder's output for it, and the encoder's output for what the decoder
\* returns on a well-formed frame is that frame: the null bulk string, the
\* empty bulk string, the null array and the empty array stay four values.
C13_RoundTrip ==
    \A c \in Conns : \A r \in {ReadResp(net[c].rd)} :
        (net[c].st = "open" /\ r.kind = "value") =>
            /\ ReadResp(Frame(r.val)) = Decoded(r.val, <<>>)
            /\ NextFrame(c) \in WellFormed => Frame(r.val) = NextFrame(c)

\* The reply to command q on storage (d, h) means "absent": GET, LPOP or RPOP
\* of a missing key, HGET of a missing key or field, LINDEX out of range.
Absent(q, d, h) ==
    \/ q.op \in {"Get", "LPop", "RPop", "HGet", "LIndex"} /\ d[q.key].t = "none"
    \/ q.op = "HGet" /\ Shape(d, h, q.key) = "hash" /\ q.member \notin DOMAIN Deref(d, h, q.key).h
    \/ /\ q.op = "LIndex" /\ Shape(d, h, q.key) = "list"
       /\ q.index >= Len(Deref(d, h, q.key).l) \/ q.index < -Len(Deref(d, h, q.key).l)

\* The reply to command q on storage (d, h) is an existing value, the empty
\* string: GET of a key set to "", LPOP of a list whose head is "", HGET of a
\* field set to "".
EmptyValue(q, d, h) ==
    \/ q.op = "Get" /\ d[q.key] = StrEntry(<<>>)
    \/ /\ q.op = "LPop" /\ Shape(d, h, q.key) = "list"
       /\ Deref(d, h, q.key).l # <<>> /\ Head(Deref(d, h, q.key).l) = <<>>
    \/ /\ q.op = "HGet" /\ Shape(d, h, q.key) = "hash"
       /\ q.member \in DOMAIN Deref(d, h, q.key).h /\ Deref(d, h, q.key).h[q.member] = <<>>

\* C14: the reply that means "absent" is the null bulk string $-1, and the reply
\* for an existing empty string is the empty bulk string $0, so the client can
\* tell them apart.
C14_NullBulkOnAbsent ==
    [][\A c \in Conns : \A r \in {ReadResp(net[c].rd)} :
          (~crashed /\ net[c].st = "open" /\ r.kind = "value" /\ Replied(c)) =>
              \A p \in {ParseCommand(r.val)} :
                  /\ (p.ok /\ Absent(p.cmd, data, heap)) => Delivered(c) = NullBulk
                  /\ (p.ok /\ EmptyValue(p.cmd, data, heap)) =>
                         Delivered(c) = Frame(NewBulk(<<>>))]_vars

(***************************************************************************)
(* Properties of the string and list commands (Spec).                      *)
(***************************************************************************)
\* The key a single-key request names, and the arguments after the key.
KeyOf(r) == r.Array[2].Str
ArgsOf(r) == [i \in 1..(Len(r.Array) - 2) |-> r.Array[i + 2].Str]

\* One iteration of the loop on request r in storage (d, h), by a command that
\* observes no iteration order and draws no random number.
Run(r, d, h) == handleConnection(r, d, h, <<>>, <<>>)

\* C15: INCR of a key holding the decimal text of n replies n + 1, and DECR
\* replies n - 1, the exact results; at the largest int64 INCR, and at the
\* smallest DECR, replies an error and leaves the stored value as it is.
C15_NoWrap ==
    [][\A n \in MinInt64..MaxInt64 :
          (Executes /\ IsRequest(req', {Name.INCR, Name.DECR})
               /\ data[KeyOf(req')] = StrEntry(FormatInt(n))) =>
              /\ IsRequest(req', {Name.INCR}) =>
                     IF n = MaxInt64 THEN reply'.Type = Error /\ data' = data
                     ELSE reply' = NewInteger(n + 1)
              /\ IsRequest(req', {Name.DECR}) =>
                     IF n = MinInt64 THEN reply'.Type = Error /\ data' = data
                     ELSE reply' = NewInteger(n - 1)]_vars

\* Texts a client can store with SET before the pair INCR, DECR.
Texts == {<<"0">>, <<"1">>, <<"-", "1">>, <<"+", "1">>, <<"0", "1">>, <<"-", "0">>, <<"a">>, <<>>}

\* The storages the pair starts from: the current one, and the current one after
\* SET k t.
Starts16(k) == {[d |-> data, h |-> heap]} \cup {Run(Request(Name.SET, <<k, t>>), data, heap) : t \in Texts}

CollectionRequests == ListRequests \cup HashRequests \cup SetRequests \cup ZSetRequests

\* C17: SET k v replies OK and stores the string v under k whatever k held;
\* right after it GET k replies v, and every list, hash, set and sorted-set
\* command that names k replies WRONGTYPE.
C17_SetReplaces ==
    [][(Executes /\ IsRequest(req', {Name.SET})) =>
          /\ reply' = NewString(OK)
          /\ data'[KeyOf(req')] = StrEntry(ArgsOf(req')[1])
          /\ Run(Request(Name.GET, <<KeyOf(req')>>), data', heap').reply = NewBulk(ArgsOf(req')[1])
          /\ \A r \in CollectionRequests : \A ord \in Orders :
                 KeyOf(req') \in KeysOf(r) =>
                     handleConnection(r, data', heap', ord, <<>>).reply = NewError(WrongType)]_vars

\* C18: while a key stays in the keyspace, no step changes the shape of the
\* value stored under it.
C18_OneShapePerLifetime ==
    [][\A k \in Keys :
          (data[k].t # "none" /\ data'[k].t # "none") =>
              Shape(data', heap', k) = Shape(data, heap, k)]_vars

\* C19: DEL replies the number of distinct named keys that were present and
\* leaves none of the named keys (and every other key as it was); EXISTS replies
\* the number of arguments whose key is present and changes nothing.
C19_DelExistsCount ==
    [][Executes =>
          /\ IsRequest(req', {Name.DEL}) =>
                 /\ reply' = NewInteger(Cardinality({k \in KeysOf(req') : data[k].t # "none"}))
                 /\ \A k \in Keys : data'[k] = IF k \in KeysOf(req') THEN NoEntry ELSE data[k]
          /\ IsRequest(req', {Name.EXISTS}) =>
                 /\ reply' = NewInteger(Cardinality({i \in 2..Len(req'.Array) :
                                                        data[req'.Array[i].Str].t # "none"}))
                 /\ data' = data /\ heap' = heap]_vars

\* DEL k k has run on a present key: it replied 1.
C19_Witness ==
    /\ IsRequest(req, {Name.DEL}) /\ Len(req.Array) = 3 /\ req.Array[2] = req.Array[3]
    /\ reply = NewInteger(1)

\* The elements of the list stored under k, none when k is absent.
ListOf(d, h, k) == IF Shape(d, h, k) = "list" THEN Deref(d, h, k).l ELSE <<>>
Reverse(q) == [i \in 1..Len(q) |-> q[Len(q) + 1 - i]]

\* C20: on an absent key or a list, LPUSH k v1..vn leaves vn..v1 followed by the
\* old elements, RPUSH the old elements followed by v1..vn, and both reply the
\* new length; on a non-empty list LPOP replies the head and leaves the rest,
\* RPOP replies the tail and leaves the rest.
C20_PushPopOrder ==
    [][(Executes /\ IsRequest(req', {Name.LPUSH, Name.RPUSH, Name.LPOP, Name.RPOP})
          /\ Shape(data, heap, KeyOf(req')) \in {"none", "list"}) =>
          \A old \in {ListOf(data, heap, KeyOf(req'))} :
          \A new \in {ListOf(data', heap', KeyOf(req'))} :
              /\ IsRequest(req', {Name.LPUSH}) =>
                     /\ Shape(data', heap', KeyOf(req')) = "list"
                     /\ new = Reverse(ArgsOf(req')) \o old
                     /\ reply' = NewInteger(Len(new))
              /\ IsRequest(req', {Name.RPUSH}) =>
                     /\ Shape(data', heap', KeyOf(req')) = "list"
                     /\ new = old \o ArgsOf(req')
                     /\ reply' = NewInteger(Len(new))
              /\ (IsRequest(req', {Name.LPOP}) /\ old # <<>>) =>
                     reply' = NewBulk(Head(old)) /\ new = Tail(old)
              /\ (IsRequest(req', {Name.RPOP}) /\ old # <<>>) =>
                     reply' = NewBulk(old[Len(old)]) /\ new = SubSeq(old, 1, Len(old) - 1)]_vars

\* LPUSH k v1 v2 has run on an absent key: the list is v2 v1 and the reply 2.
C20_Witness ==
    /\ IsRequest(req, {Name.LPUSH}) /\ Len(req.Array) = 4 /\ reply = NewInteger(2)
    /\ ListOf(data, heap, KeyOf(req)) = <<ArgsOf(req)[2], ArgsOf(req)[1]>>
    /\ ArgsOf(req)[1] # ArgsOf(req)[2]

(***************************************************************************)
(* One connection working on one list (SpecList): the list commands with   *)
(* every index and count an int64 argument can carry, on lists of up to    *)
(* MaxList elements.                                                       *)
(***************************************************************************)
MaxList == 3

\* The decimal text of every int64.
Indexes == {FormatInt(n) : n \in MinInt64..MaxInt64}

\* The requests that build the list, or put something else under the key.
BuildRequests ==
    {Request(n, <<Main>> \o vs) :
        n \in {Name.LPUSH, Name.RPUSH, Name.LPUSHX, Name.RPUSHX}, vs \in ValArgs}
    \cup {Request(Name.DEL, <<Main>>), Request(Name.SADD, <<Main, <<"a">>>>)}

\* The requests that change the list in place.
EditRequests ==
    {Request(Name.LSET, <<Main, i, v>>) : i \in Indexes, v \in Vals}
    \cup {Request(Name.LREM, <<Main, c, v>>) : c \in Indexes, v \in Vals}
    \cup {Request(Name.LINSERT, <<Main, pos, pivot, <<"1">>>>) :
             pos \in {BEFORE, <<"a","f","t","e","r">>}, pivot \in Vals}
    \cup {Request(Name.LTRIM, <<Main, a, b>>) : a \in Indexes, b \in Indexes}

\* The requests that only read the list.
ReadRequests ==
    {Request(Name.LINDEX, <<Main, i>>) : i \in Indexes}
    \cup {Request(Name.LRANGE, <<Main, a, b>>) : a \in Indexes, b \in Indexes}
    \cup {Request(Name.LLEN, <<Main>>)}

\* The connection reads respValue and runs one iteration of its loop on it.
HandleList(respValue) ==
    /\ ~crashed /\ conn = "open" /\ req = Nothing
    /\ \E r \in {Run(respValue, data, heap)} :
          /\ Len(ListOf(r.d, r.h, Main)) <= MaxList
          /\ data' = r.d
          /\ heap' = Sweep(r.d, r.h, {})
          /\ crashed' = r.panic
          /\ req' = respValue
          /\ reply' = r.reply
          /\ conn' = r.conn
    /\ UNCHANGED <<thr, net>>

BuildList == \E r \in BuildRequests : HandleList(r)
EditList  == \E r \in EditRequests : HandleList(r)
ReadList  == \E r \in ReadRequests : HandleList(r)

NextList ==
    \/ BuildList
    \/ EditList
    \/ ReadList
    \/ Loop

SpecList == Init /\ [][NextList]_vars

(***************************************************************************)
(* Properties of the list commands (SpecList).                             *)
(***************************************************************************)
\* C21: LPUSHX and RPUSHX on an absent key reply 0 and leave the key absent;
\* on a key holding a list they reply and leave what LPUSH and RPUSH with the
\* same arguments would: the values in front in reverse order, or at the end.
C21_PushXOnlyOnList ==
    [][(Executes /\ IsRequest(req', {Name.LPUSHX, Name.RPUSHX})) =>
          \A k \in {KeyOf(req')} :
              /\ data[k].t = "none" =>
                     reply' = NewInteger(0) /\ data' = data /\ heap' = heap
              /\ Shape(data, heap, k) = "list" =>
                     /\ \A p \in {Run(Request(IF IsRequest(req', {Name.LPUSHX})
                                              THEN Name.LPUSH ELSE Name.RPUSH,
                                              <<k>> \o ArgsOf(req')), data, heap)} :
                            reply' = p.reply /\ data' = p.d /\ heap' = p.h
                     /\ ListOf(data', heap', k) =
                            IF IsRequest(req', {Name.LPUSHX})
                            THEN Reverse(ArgsOf(req')) \o ListOf(data, heap, k)
                            ELSE ListOf(data, heap, k) \o ArgsOf(req')
                     /\ reply' = NewInteger(Len(ListOf(data', heap', k)))]_vars

\* LPUSHX k v1 v2 has run on a list of one element: the list is v2 v1 and the
\* old element, and the reply 3.
C21_Witness ==
    /\ IsRequest(req, {Name.LPUSHX}) /\ Len(req.Array) = 4 /\ reply = NewInteger(3)
    /\ Len(ListOf(data, heap, KeyOf(req))) = 3
    /\ SubSeq(ListOf(data, heap, KeyOf(req)), 1, 2) = <<ArgsOf(req)[2], ArgsOf(req)[1]>>
    /\ ArgsOf(req)[1] # ArgsOf(req)[2]

\* LPUSHX has run on an absent key: the reply is 0 and the key is absent.
C21_WitnessAbsent ==
    /\ IsRequest(req, {Name.LPUSHX, Name.RPUSHX}) /\ reply = NewInteger(0)
    /\ data[KeyOf(req)].t = "none"

\* The integer a decimal argument of a request stands for.
IntOf(text) == ParseInt(text).n

\* C22: LSET k i v on an absent key replies the error "no such key"; on a list
\* of length n with i outside [-n, n-1] it replies "index out of range" and
\* leaves the list as it was; otherwise it replies OK, replaces the element at
\* index i (a negative i counted from the tail, -1 the last) and no other, keeps
\* the length, and LINDEX k i then replies v.
C22_LSetReplacesOne ==
    [][(Executes /\ IsRequest(req', {Name.LSET})) =>
          \A k \in {KeyOf(req')} : \A i \in {IntOf(ArgsOf(req')[1])} : \A v \in {ArgsOf(req')[2]} :
              /\ data[k].t = "none" =>
                     reply' = NewError(ErrNoKey) /\ data' = data /\ heap' = heap
              /\ Shape(data, heap, k) = "list" =>
                     \A old \in {ListOf(data, heap, k)} : \A new \in {ListOf(data', heap', k)} :
                         IF i < -Len(old) \/ i > Len(old) - 1
                         THEN reply' = NewError(ErrIndex) /\ data' = data /\ heap' = heap
                         ELSE /\ reply' = NewString(OK)
                              /\ Shape(data', heap', k) = "list"
                              /\ Len(new) = Len(old)
                              /\ \A j \in 1..Len(old) :
                                     new[j] = IF j = (IF i < 0 THEN Len(old) + i ELSE i) + 1
                                              THEN v ELSE old[j]
                              /\ Run(Request(Name.LINDEX, <<k, ArgsOf(req')[1]>>),
                                     data', heap').reply = NewBulk(v)]_vars

\* LSET k -1 v has run on a list of three elements whose last was not v: the
\* last element is v, the first two are as they were.
C22_Witness ==
    /\ IsRequest(req, {Name.LSET}) /\ IntOf(ArgsOf(req)[1]) = -1 /\ reply = NewString(OK)
    /\ Len(ListOf(data, heap, KeyOf(req))) = 3
    /\ ListOf(data, heap, KeyOf(req))[3] = ArgsOf(req)[2]
    /\ ListOf(data, heap, KeyOf(req))[2] # ArgsOf(req)[2]

\* LSET has run with an index out of range on a list that is not empty.
C22_WitnessRange ==
    /\ IsRequest(req, {Name.LSET}) /\ reply = NewError(ErrIndex)
    /\ ListOf(data, heap, KeyOf(req)) # <<>>

\* The positions of l that hold v, the m first and the m last of a set of
\* positions, and l without the elements at the positions in R.
Occurrences(l, v) == {j \in 1..Len(l) : l[j] = v}
FirstOf(P, m) == {j \in P : Cardinality({x \in P : x < j}) < m}
LastOf(P, m)  == {j \in P : Cardinality({x \in P : x > j}) < m}
Without(l, R) ==
    [n \in 1..(Len(l) - Cardinality(R)) |->
        l[CHOOSE j \in (1..Len(l)) \ R : Cardinality({x \in (1..Len(l)) \ R : x <= j}) = n]]
Min(a, b) == IF a < b THEN a ELSE b
Abs(a) == IF a < 0 THEN -a ELSE a

\* C23: LREM k c v on a list removes the first min(c, occurrences) elements
\* equal to v when c > 0, the last min(|c|, occurrences) when c < 0 and all of
\* them when c = 0, replies the number removed and keeps the other elements in
\* their order; on an absent key it replies 0.
C23_LRemCounts ==
    [][(Executes /\ IsRequest(req', {Name.LREM})) =>
          \A k \in {KeyOf(req')} : \A c \in {IntOf(ArgsOf(req')[1])} :
              /\ data[k].t = "none" => reply' = NewInteger(0) /\ data' = data
              /\ Shape(data, heap, k) = "list" =>
                     \A old \in {ListOf(data, heap, k)} :
                     \A P \in {Occurrences(old, ArgsOf(req')[2])} :
                     \A R \in {IF c = 0 THEN P
                               ELSE IF c > 0 THEN FirstOf(P, Min(c, Cardinality(P)))
                               ELSE LastOf(P, Min(Abs(c), Cardinality(P)))} :
                         /\ reply' = NewInteger(Cardinality(R))
                         /\ ListOf(data', heap', k) = Without(old, R)]_vars

\* C23 for every count but the smallest int64.
C23_LRemCountsNegatable ==
    [][(Executes /\ IsRequest(req', {Name.LREM}) /\ IntOf(ArgsOf(req')[1]) # MinInt64) =>
          \A k \in {KeyOf(req')} : \A c \in {IntOf(ArgsOf(req')[1])} :
              /\ data[k].t = "none" => reply' = NewInteger(0) /\ data' = data
              /\ Shape(data, heap, k) = "list" =>
                     \A old \in {ListOf(data, heap, k)} :
                     \A P \in {Occurrences(old, ArgsOf(req')[2])} :
                     \A R \in {IF c = 0 THEN P
                               ELSE IF c > 0 THEN FirstOf(P, Min(c, Cardinality(P)))
                               ELSE LastOf(P, Min(Abs(c), Cardinality(P)))} :
                         /\ reply' = NewInteger(Cardinality(R))
                         /\ ListOf(data', heap', k) = Without(old, R)]_vars

\* C24: LINSERT k BEFORE|AFTER pivot v on a list with an element equal to pivot
\* puts v immediately before / after the first such element, changes nothing
\* else and replies the new length; with no such element it replies -1 and
\* leaves the list as it was; on an absent key it replies 0 and creates nothing.
C24_LInsertAtFirstPivot ==
    [][(Executes /\ IsRequest(req', {Name.LINSERT})) =>
          \A k \in {KeyOf(req')} : \A pivot \in {ArgsOf(req')[2]} :
              /\ data[k].t = "none" =>
                     reply' = NewInteger(0) /\ data' = data /\ heap' = heap
              /\ Shape(data, heap, k) = "list" =>
                     \A old \in {ListOf(data, heap, k)} : \A new \in {ListOf(data', heap', k)} :
                         IF Occurrences(old, pivot) = {}
                         THEN reply' = NewInteger(-1) /\ data' = data /\ heap' = heap
                         ELSE /\ reply' = NewInteger(Len(old) + 1)
                              /\ Len(new) = Len(old) + 1
                              /\ \E q \in 1..Len(new) :
                                     /\ new[q] = ArgsOf(req')[3]
                                     /\ Without(new, {q}) = old
                                     /\ IF ToUpper(ArgsOf(req')[1]) = BEFORE
                                        THEN /\ q < Len(new) /\ new[q + 1] = pivot
                                             /\ \A j \in 1..(q - 1) : old[j] # pivot
                                        ELSE /\ q > 1 /\ new[q - 1] = pivot
                                             /\ \A j \in 1..(q - 2) : old[j] # pivot]_vars

\* LINSERT k BEFORE pivot v has run on the list pivot, pivot with v another
\* value: the list is v, pivot, pivot and the reply 3.
C24_Witness ==
    /\ IsRequest(req, {Name.LINSERT}) /\ ToUpper(ArgsOf(req)[1]) = BEFORE
    /\ ArgsOf(req)[2] # ArgsOf(req)[3] /\ reply = NewInteger(3)
    /\ ListOf(data, heap, KeyOf(req)) = <<ArgsOf(req)[3], ArgsOf(req)[2], ArgsOf(req)[2]>>

\* LINSERT has run on a list with no element equal to pivot.
C24_WitnessNoPivot ==
    /\ IsRequest(req, {Name.LINSERT}) /\ reply = NewInteger(-1)
    /\ ListOf(data, heap, KeyOf(req)) # <<>>

\* C25: for every list and all int64 indexes a and b, LRANGE k 0 -1 right after
\* LTRIM k a b replies what LRANGE k a b replies right before it.
C25_RangeTrimDuality ==
    [][(Executes /\ IsRequest(req', {Name.LTRIM})
          /\ Shape(data, heap, KeyOf(req')) = "list") =>
          /\ reply' = NewString(OK)
          /\ Run(Request(Name.LRANGE, <<KeyOf(req'), <<"0">>, <<"-", "1">>>>),
                 data', heap').reply
               = Run(Request(Name.LRANGE, <<KeyOf(req')>> \o ArgsOf(req')), data, heap).reply
          /\ Run(Request(Name.LRANGE, <<KeyOf(req')>> \o ArgsOf(req')), data, heap).reply.Type
               = Array]_vars

\* LTRIM k 1 -2 has run on a list of three elements and left the middle one.
C25_Witness ==
    /\ IsRequest(req, {Name.LTRIM}) /\ reply = NewString(OK)
    /\ IntOf(ArgsOf(req)[1]) = 1 /\ IntOf(ArgsOf(req)[2]) = -2
    /\ Len(ListOf(data, heap, KeyOf(req))) = 1

\* The positions 0..n-1 of a list of n elements that the range a..b selects,
\* a negative index counted from the tail.
Selected(n, a, b) ==
    {j \in 0..(n - 1) : (IF a < 0 THEN n + a ELSE a) <= j /\ j <= (IF b < 0 THEN n + b ELSE b)}

\* C26: LTRIM k s e on a list of which the range selects no position replies OK
\* and deletes the key: EXISTS k then replies 0 and SADD k x replies 1, having
\* created a set under k.
C26_EmptyTrimDeletesKey ==
    [][(Executes /\ IsRequest(req', {Name.LTRIM})
          /\ Shape(data, heap, KeyOf(req')) = "list"
          /\ Selected(Len(ListOf(data, heap, KeyOf(req'))),
                      IntOf(ArgsOf(req')[1]), IntOf(ArgsOf(req')[2])) = {}) =>
          /\ reply' = NewString(OK)
          /\ data'[KeyOf(req')] = NoEntry
          /\ Run(Request(Name.EXISTS, <<KeyOf(req')>>), data', heap').reply = NewInteger(0)
          /\ \A x \in Vals : \A a \in {Run(Request(Name.SADD, <<KeyOf(req'), x>>), data', heap')} :
                 /\ a.reply = NewInteger(1)
                 /\ Shape(a.d, a.h, KeyOf(req')) = "set"
                 /\ Deref(a.d, a.h, KeyOf(req')).m = {x}]_vars

\* LTRIM k 1 0 has run and replied OK, and k is absent.
C26_Witness ==
    /\ IsRequest(req, {Name.LTRIM}) /\ reply = NewString(OK)
    /\ IntOf(ArgsOf(req)[1]) = 1 /\ IntOf(ArgsOf(req)[2]) = 0
    /\ data[KeyOf(req)] = NoEntry

(***************************************************************************)
(* Properties of the set commands (Spec).                                  *)
(***************************************************************************)
\* The members of the set stored under k, none when k holds no set.
SetOf(d, h, k) == IF Shape(d, h, k) = "set" THEN Deref(d, h, k).m ELSE {}

\* The texts of an array reply, as a sequence and as a set.
TextsOf(r) == [i \in 1..Len(r.Array) |-> r.Array[i].Str]
MembersOf(r) == {r.Array[i].Str : i \in 1..Len(r.Array)}

\* SPOP k (cnt = 1) and SPOP k cnt for every cnt >= 0.
Pops(k) ==
    {[cnt |-> 1, r |-> Request(Name.SPOP, <<k>>)]}
    \cup {[cnt |-> c, r |-> Request(Name.SPOP, <<k, FormatInt(c)>>)] : c \in 0..MaxInt64}

\* C27: SPOP k cnt on a set replies min(cnt, SCARD k) distinct members when
\* cnt > 0 (cnt = 1 when it is left out) and all members when cnt = 0; the
\* members replied were in the set and are removed, the others stay, and the
\* key is removed when no member is left.  Checked in every reachable state,
\* for every iteration order and all random draws.
C27_SPopCount ==
    \A k \in Keys : Shape(data, heap, k) = "set" =>
        \A p \in Pops(k) : \A ord \in Orders : \A rnd \in Picks :
        \A a \in {handleConnection(p.r, data, heap, ord, rnd)} :
        \A old \in {SetOf(data, heap, k)} :
            /\ ~a.panic /\ a.reply.Type = Array
            /\ Len(a.reply.Array) =
                   IF p.cnt = 0 THEN Cardinality(old) ELSE Min(p.cnt, Cardinality(old))
            /\ Cardinality(MembersOf(a.reply)) = Len(a.reply.Array)
            /\ \A i \in 1..Len(a.reply.Array) : a.reply.Array[i].Type = Bulk
            /\ MembersOf(a.reply) \subseteq old
            /\ SetOf(a.d, a.h, k) = old \ MembersOf(a.reply)
            /\ IF old \ MembersOf(a.reply) = {}
               THEN a.d[k] = NoEntry
               ELSE Shape(a.d, a.h, k) = "set"
            /\ \A o \in Keys \ {k} : a.d[o] = data[o]

\* SPOP k 1 has run on a set of two members: it replied one of them and the
\* other is what the set holds.
C27_Witness ==
    /\ IsRequest(req, {Name.SPOP}) /\ Len(req.Array) = 3 /\ IntOf(ArgsOf(req)[1]) = 1
    /\ reply.Type = Array /\ Len(reply.Array) = 1
    /\ Cardinality(SetOf(data, heap, KeyOf(req))) = 1
    /\ reply.Array[1].Str \notin SetOf(data, heap, KeyOf(req))

(***************************************************************************)
(* One connection working on sets under every key (SpecSets): each key is  *)
(* absent or holds a set, a string or a list, and the set-algebra commands *)
(* name one to MaxKeys keys.                                               *)
(***************************************************************************)
MaxKeys == 3
KeyLists == UNION {[1..n -> Keys] : n \in 1..MaxKeys}

\* The requests that put a set, or something else, under a key.
PopulateRequests ==
    {Request(n, <<k>> \o ms) : n \in {Name.SADD, Name.SREM}, k \in Keys, ms \in ValArgs}
    \cup {Request(Name.SET, <<k, <<"a">>>>) : k \in Keys}
    \cup {Request(Name.RPUSH, <<k, <<"a">>>>) : k \in Keys}
    \cup {Request(Name.DEL, <<k>>) : k \in Keys}

\* The set-algebra requests.
CombineRequests ==
    {Request(n, ks) : n \in {Name.SINTER, Name.SUNION, Name.SDIFF}, ks \in KeyLists}

Populate == \E r \in PopulateRequests : Handle(r, {<<>>}, {<<>>})
Combine  == \E r \in CombineRequests : Handle(r, Orders, {<<>>})

NextSets ==
    \/ Populate
    \/ Combine
    \/ Loop

SpecSets == Init /\ [][NextSets]_vars

(***************************************************************************)
(* Properties of the set-algebra commands (SpecSets).                      *)
(***************************************************************************)

\* The rearrangements of a list of keys.
Rearranged(ks) ==
    {[i \in 1..Len(ks) |-> ks[f[i]]] :
        f \in {g \in [1..Len(ks) -> 1..Len(ks)] :
                  \A i, j \in 1..Len(ks) : g[i] = g[j] => i = j}}

\* A list of keys with every occurrence of a key after its first removed.
RECURSIVE Dedup(_)
Dedup(ks) ==
    IF ks = <<>> THEN <<>>
    ELSE IF \E i \in 1..(Len(ks) - 1) : ks[i] = ks[Len(ks)]
         THEN Dedup(SubSeq(ks, 1, Len(ks) - 1))
         ELSE Append(Dedup(SubSeq(ks, 1, Len(ks) - 1)), ks[Len(ks)])

\* The outcome of a set-algebra command: the error, or the result as a set.
Outcome(r) ==
    IF r.Type = Error THEN [err |-> r.Str, m |-> {}] ELSE [err |-> <<>>, m |-> MembersOf(r)]

\* The outcome of the command `name` on the keys ks in the current state.
OutcomeOf(name, ks, ord) ==
    Outcome(handleConnection(Request(name, ks), data, heap, ord, <<>>).reply)

\* C28: in every state and for every list of keys, SUNION and SINTER have the
\* same outcome (the result as a set, or the error) on every rearrangement of
\* the list.
C28_OrderInsensitive ==
    \A ks \in KeyLists : \A qs \in Rearranged(ks) : \A ord \in Orders :
    \A name \in {Name.SUNION, Name.SINTER} :
        OutcomeOf(name, qs, ord) = OutcomeOf(name, ks, ord)

\* C28 for SUNION alone, and for SINTER on keys that are absent or hold sets.
C28_OrderInsensitiveOnSets ==
    \A ks \in KeyLists : \A qs \in Rearranged(ks) : \A ord \in Orders :
        /\ OutcomeOf(Name.SUNION, qs, ord) = OutcomeOf(Name.SUNION, ks, ord)
        /\ (\A i \in 1..Len(ks) : Shape(data, heap, ks[i]) \in {"none", "set"}) =>
               OutcomeOf(Name.SINTER, qs, ord) = OutcomeOf(Name.SINTER, ks, ord)

\* C29 (as stated): SINTER, SUNION and SDIFF on a list of keys with a key
\* repeated, at any positions, have the outcome they have on the list with the
\* repeated occurrences removed.
C29_DuplicatesIgnored ==
    \A ks \in KeyLists : \A ord \in Orders :
    \A name \in {Name.SINTER, Name.SUNION, Name.SDIFF} :
        OutcomeOf(name, ks, ord) = OutcomeOf(name, Dedup(ks), ord)

\* C29 (amended): the same for SINTER and SUNION, and for SDIFF when the first
\* key is not among the repeated ones; SDIFF with its first key repeated
\* subtracts the first set from itself and replies no member.
C29_DuplicatesIgnoredButFirstOfSDiff ==
    \A ks \in KeyLists : \A ord \in Orders :
        /\ \A name \in {Name.SINTER, Name.SUNION} :
               OutcomeOf(name, ks, ord) = OutcomeOf(name, Dedup(ks), ord)
        /\ IF \A i \in 2..Len(ks) : ks[i] # ks[1]
           THEN OutcomeOf(Name.SDIFF, ks, ord) = OutcomeOf(Name.SDIFF, Dedup(ks), ord)
           ELSE OutcomeOf(Name.SDIFF, ks, ord).m = {}

\* SINTER k k has run on a set of two members and replied both.
C29_Witness ==
    /\ IsRequest(req, {Name.SINTER}) /\ Len(req.Array) = 3 /\ req.Array[2] = req.Array[3]
    /\ reply.Type = Array /\ Cardinality(MembersOf(reply)) = 2
    /\ MembersOf(reply) = SetOf(data, heap, KeyOf(req))

\* SDIFF k j j has run with k holding two members and j one of them: it replied
\* the other.
C29_WitnessSDiff ==
    /\ IsRequest(req, {Name.SDIFF}) /\ Len(req.Array) = 4
    /\ req.Array[3] = req.Array[4] /\ req.Array[2] # req.Array[3]
    /\ reply.Type = Array /\ Cardinality(MembersOf(reply)) = 1
    /\ Cardinality(SetOf(data, heap, req.Array[3].Str)) = 1
    /\ SetOf(data, heap, KeyOf(req)) = MembersOf(reply) \cup SetOf(data, heap, req.Array[3].Str)

\* What the set algebra gives with an absent key as the empty set.
Algebra(name, ks) ==
    IF name = Name.SUNION THEN UNION {SetOf(data, heap, ks[i]) : i \in 1..Len(ks)}
    ELSE IF name = Name.SINTER
    THEN {x \in SetOf(data, heap, ks[1]) : \A i \in 1..Len(ks) : x \in SetOf(data, heap, ks[i])}
    ELSE {x \in SetOf(data, heap, ks[1]) : \A i \in 2..Len(ks) : x \notin SetOf(data, heap, ks[i])}

\* C30: SINTER, SUNION and SDIFF reply WRONGTYPE when a key at any position
\* holds a value that is not a set, whatever the other keys are; otherwise they
\* reply the intersection, union or difference with an absent key as the empty
\* set.
C30_WrongTypeAnywhere ==
    \A ks \in KeyLists : \A ord \in Orders :
    \A name \in {Name.SINTER, Name.SUNION, Name.SDIFF} :
        OutcomeOf(name, ks, ord) =
            IF \E i \in 1..Len(ks) : Shape(data, heap, ks[i]) \notin {"none", "set"}
            THEN [err |-> WrongType, m |-> {}]
            ELSE [err |-> <<>>, m |-> Algebra(name, ks)]

\* C30 with the keys before the one that is not a set holding sets, and for
\* SINTER a partial intersection that is not empty.
C30_WrongTypeWhenReached ==
    \A ks \in KeyLists : \A ord \in Orders :
    \A name \in {Name.SINTER, Name.SUNION, Name.SDIFF} :
        IF \A i \in 1..Len(ks) : Shape(data, heap, ks[i]) \in {"none", "set"}
        THEN OutcomeOf(name, ks, ord) = [err |-> <<>>, m |-> Algebra(name, ks)]
        ELSE \A i \in 1..Len(ks) :
                 (/\ Shape(data, heap, ks[i]) \notin {"none", "set"}
                  /\ \A j \in 1..(i - 1) : Shape(data, heap, ks[j]) = "set"
                  /\ (name = Name.SINTER /\ i > 1) =>
                         Algebra(name, SubSeq(ks, 1, i - 1)) # {}) =>
                     OutcomeOf(name, ks, ord) = [err |-> WrongType, m |-> {}]

(***************************************************************************)
(* One connection working on one sorted set (SpecZSet): scores within      *)
(* +-MaxScore and NaN, members that share a score, a member named twice by *)
(* one ZADD.                                                               *)
(***************************************************************************)
ScoreArgs == {<<"1">>, <<"2">>, <<"n", "a", "n">>}

\* The requests that change the sorted set.
ZWriteRequests ==
    {Request(Name.ZADD, <<Main, sc, m>>) : sc \in ScoreArgs, m \in Vals}
    \cup {Request(Name.ZADD, <<Main, s1, m1, s2, m2>>) :
             s1 \in {<<"1">>, <<"2">>}, s2 \in {<<"1">>, <<"2">>}, m1 \in Vals, m2 \in Vals}
    \cup {Request(Name.ZREM, <<Main>> \o ms) : ms \in ValArgs}
    \cup {Request(Name.ZINCRBY, <<Main, inc, m>>) :
             inc \in {<<"1">>, <<"-", "1">>, <<"0">>, <<"N", "a", "N">>}, m \in Vals}
    \cup {Request(Name.DEL, <<Main>>)}

\* The requests that read it.
ZReadRequests ==
    {Request(n, <<Main, m>>) : n \in {Name.ZSCORE, Name.ZRANK, Name.ZREVRANK}, m \in Vals}
    \cup {Request(n, <<Main, <<"0">>, <<"-", "1">>>> \o opt) :
             n \in {Name.ZRANGE, Name.ZREVRANGE}, opt \in {<<>>, <<WITHSCORES>>}}
    \cup {Request(Name.ZCARD, <<Main>>)}

ZWrite == \E r \in ZWriteRequests : Handle(r, Orders, {<<>>})
ZRead  == \E r \in ZReadRequests : Handle(r, Orders, {<<>>})

NextZSet ==
    \/ ZWrite
    \/ ZRead
    \/ Loop

SpecZSet == Init /\ [][NextZSet]_vars

(***************************************************************************)
(* Properties of the sorted-set commands (SpecZSet).                       *)
(***************************************************************************)
\* The scores of the sorted set stored under k, by member; no member when k
\* holds no sorted set.
ZSetOf(d, h, k) == IF Shape(d, h, k) = "zset" THEN Deref(d, h, k).z ELSE <<>>

\* The (score, member) pairs of a ZADD request, the members they list and the
\* last score they give for a member.
PairsOf(r) ==
    [i \in 1..((Len(r.Array) - 2) \div 2) |->
        [Score |-> ParseFloat(r.Array[2 * i + 1].Str).x, Member |-> r.Array[2 * i + 2].Str]]
Listed(pairs) == {pairs[i].Member : i \in 1..Len(pairs)}
LastScore(pairs, m) ==
    pairs[CHOOSE i \in 1..Len(pairs) :
              pairs[i].Member = m /\ \A j \in (i + 1)..Len(pairs) : pairs[j].Member # m].Score

\* What C31 asks of a ZADD step.
ZAddAsClaimed ==
    \A k \in {KeyOf(req')} : \A pairs \in {PairsOf(req')} :
    \A old \in {ZSetOf(data, heap, k)} : \A new \in {ZSetOf(data', heap', k)} :
        /\ Shape(data', heap', k) = "zset"
        /\ DOMAIN new = DOMAIN old \cup Listed(pairs)
        /\ \A m \in DOMAIN new :
               new[m] = IF m \in Listed(pairs) THEN LastScore(pairs, m) ELSE old[m]
        /\ reply' = NewInteger(Cardinality({m \in Listed(pairs) :
                                               m \notin DOMAIN old \/ old[m] # new[m]}))
        /\ \A ord \in Orders :
           \A all \in {handleConnection(Request(Name.ZRANGE, <<k, <<"0">>, <<"-", "1">>>>),
                                        data', heap', ord, <<>>).reply} :
               /\ MembersOf(all) = DOMAIN new
               /\ Len(all.Array) = Cardinality(DOMAIN new)

\* C31: ZADD on an absent key or a sorted set leaves a sorted set that holds
\* every listed member exactly once with the last score given for it and the
\* other members as they were, and replies the number of members that are new
\* or whose score changed; a pair that restates the current score adds nothing
\* to the count.
C31_ZAddCounts ==
    [][(Executes /\ IsRequest(req', {Name.ZADD})
          /\ Shape(data, heap, KeyOf(req')) \in {"none", "zset"}) => ZAddAsClaimed]_vars

\* C31 for the requests that name no member twice and give no NaN.
C31_ZAddCountsPlain ==
    [][(Executes /\ IsRequest(req', {Name.ZADD})
          /\ Shape(data, heap, KeyOf(req')) \in {"none", "zset"}
          /\ Cardinality(Listed(PairsOf(req'))) = Len(PairsOf(req'))
          /\ \A i \in 1..Len(PairsOf(req')) : ~IsNaN(PairsOf(req')[i].Score)) =>
          ZAddAsClaimed]_vars

\* The members ZRANGE k 0 -1 and ZREVRANGE k 0 -1 reply in the current state,
\* when the map is iterated in the order ord.
Ascending(k, ord) ==
    TextsOf(handleConnection(Request(Name.ZRANGE, <<k, <<"0">>, <<"-", "1">>>>),
                             data, heap, ord, <<>>).reply)
Descending(k, ord) ==
    TextsOf(handleConnection(Request(Name.ZREVRANGE, <<k, <<"0">>, <<"-", "1">>>>),
                             data, heap, ord, <<>>).reply)

\* q lists every member of z exactly once.
ListsAll(q, z) == Len(q) = Cardinality(DOMAIN z) /\ Range(q) = DOMAIN z

\* q is in non-decreasing / non-increasing score order, ties by ascending member.
AscendingOrder(q, z) ==
    \A i, j \in 1..Len(q) :
        i < j => \/ FLess(z[q[i]], z[q[j]])
                 \/ FEq(z[q[i]], z[q[j]]) /\ StrLess(q[i], q[j])
DescendingOrder(q, z) ==
    \A i, j \in 1..Len(q) :
        i < j => \/ FLess(z[q[j]], z[q[i]])
                 \/ FEq(z[q[i]], z[q[j]]) /\ StrLess(q[i], q[j])

HasNaN(z) == \E m \in DOMAIN z : IsNaN(z[m])
HasTie(z) == \E m, n \in DOMAIN z : m # n /\ FEq(z[m], z[n])

RankReply(k, m, ord) ==
    handleConnection(Request(Name.ZRANK, <<k, m>>), data, heap, ord, <<>>).reply
RevRankReply(k, m, ord) ==
    handleConnection(Request(Name.ZREVRANK, <<k, m>>), data, heap, ord, <<>>).reply
CardReply(k) ==
    handleConnection(Request(Name.ZCARD, <<k>>), data, heap, <<>>, <<>>).reply

\* The other members with m's score whose names sort before m, and after m.
TiedBefore(z, m) == {n \in DOMAIN z : n # m /\ FEq(z[n], z[m]) /\ StrLess(n, m)}
TiedAfter(z, m)  == {n \in DOMAIN z : n # m /\ FEq(z[n], z[m]) /\ StrLess(m, n)}

ZIncrByAsClaimed ==
    \A k \in {KeyOf(req')} : \A m \in {req'.Array[4].Str} :
    \A delta \in {ParseFloat(req'.Array[3].Str).x} :
    \A old \in {ZSetOf(data, heap, k)} : \A new \in {ZSetOf(data', heap', k)} :
    \A newScore \in {IF m \in DOMAIN old THEN FAdd(old[m], delta) ELSE delta} :
        /\ Shape(data', heap', k) = "zset"
        /\ DOMAIN new = DOMAIN old \cup {m}
        /\ new[m] = newScore
        /\ \A n \in DOMAIN old \ {m} : new[n] = old[n]
        /\ reply' = NewBulk(FormatFloat(newScore))
        /\ handleConnection(Request(Name.ZSCORE, <<k, m>>), data', heap', <<>>, <<>>).reply
             = NewBulk(FormatFloat(newScore))
        /\ \A o1, o2 \in Orders :
           \A all \in {TextsOf(handleConnection(Request(Name.ZRANGE, <<k, <<"0">>, <<"-", "1">>>>),
                                                data', heap', o1, <<>>).reply)} :
           \A rank \in {handleConnection(Request(Name.ZRANK, <<k, m>>),
                                         data', heap', o2, <<>>).reply} :
               /\ ListsAll(all, new)
               /\ AscendingOrder(all, new)
               /\ rank.Type = Integer
               /\ rank.Num = IndexOf(all, m)

\* C34: ZINCRBY k delta m on an absent key or a sorted set creates key and
\* member when absent (score delta), otherwise adds delta to the member's
\* score; it replies the new score, changes no other member, and ZSCORE, ZRANGE
\* and ZRANK on the resulting state show the new score and the position that
\* score gives the member.
C34_ZIncrByReflected ==
    [][(Executes /\ IsRequest(req', {Name.ZINCRBY}) /\ Len(req'.Array) = 4
          /\ Shape(data, heap, KeyOf(req')) \in {"none", "zset"}) => ZIncrByAsClaimed]_vars

\* C34 for the steps that leave a sorted set with no NaN score.
C34_ZIncrByReflectedNumbers ==
    [][(Executes /\ IsRequest(req', {Name.ZINCRBY}) /\ Len(req'.Array) = 4
          /\ Shape(data, heap, KeyOf(req')) \in {"none", "zset"}
          /\ ~HasNaN(ZSetOf(data', heap', KeyOf(req')))) => ZIncrByAsClaimed]_vars

\* What C40 asks of the sorted set z under key k: each rank is the index of
\* the member in the corresponding range, whatever order the map is iterated in
\* by each of the two commands, and an absent member has no rank.
RanksIndexRanges(k, z) ==
    \A o1, o2 \in Orders :
        /\ \A m \in DOMAIN z :
           \A up \in {RankReply(k, m, o1)} : \A down \in {RevRankReply(k, m, o1)} :
               /\ up.Type = Integer /\ up.Num >= 0 /\ up.Num < Len(Ascending(k, o2))
               /\ Ascending(k, o2)[up.Num + 1] = m
               /\ down.Type = Integer /\ down.Num >= 0 /\ down.Num < Len(Descending(k, o2))
               /\ Descending(k, o2)[down.Num + 1] = m
        /\ \A m \in Vals \ DOMAIN z :
               /\ RankReply(k, m, o1) = NewBulk(<<>>)
               /\ RevRankReply(k, m, o1) = NewBulk(<<>>)

\* C40: for every sorted set and present member m, the element at index
\* ZRANK(m) of ZRANGE k 0 -1 is m and the element at index ZREVRANK(m) of
\* ZREVRANGE k 0 -1 is m; for an absent member both ranks are null.
C40_RankIndexesRange ==
    \A k \in Keys : Shape(data, heap, k) = "zset" => RanksIndexRanges(k, ZSetOf(data, heap, k))

\* C40 for the sorted sets that hold no NaN score.
C40_RankIndexesRangeNumbers ==
    \A k \in Keys : (Shape(data, heap, k) = "zset" /\ ~HasNaN(ZSetOf(data, heap, k))) =>
        RanksIndexRanges(k, ZSetOf(data, heap, k))

(***************************************************************************)
(* Properties of the whole command set (Spec).                             *)
(***************************************************************************)
\* A request of the form the protocol section asks for: a non-empty array
\* whose elements are all bulk strings.
AllBulkArray(r) ==
    r.Type = Array /\ Len(r.Array) > 0 /\ \A i \in 1..Len(r.Array) : r.Array[i].Type = Bulk

\* C35: a request that is not a non-empty array of bulk strings is answered
\* with 'ERR invalid command format' and leaves the keyspace as it was.
C35_FormatChecked ==
    [][(req = Nothing /\ req' # Nothing /\ ~AllBulkArray(req')) =>
          (reply' = NewError(ErrFormat) /\ data' = data /\ heap' = heap)]_vars

\* C35 for the requests that are no array or an empty one.
C35_FormatCheckedOuter ==
    [][(req = Nothing /\ req' # Nothing /\ (req'.Type # Array \/ Len(req'.Array) = 0)) =>
          (reply' = NewError(ErrFormat) /\ data' = data /\ heap' = heap)]_vars

\* An array whose command name is a simple string has been executed as SET.
C35_Executed ==
    /\ req.Type = Array /\ Len(req.Array) = 3 /\ req.Array[1].Type = String
    /\ reply = NewString(OK)
    /\ data[req.Array[2].Str] = StrEntry(req.Array[3].Str)

\* What is stored under key k: nothing, a string, or the collection referred to.
ValueAt(d, h, k) == IF d[k].t = "ref" THEN h[d[k].id] ELSE d[k]

\* The keys a request names: every argument of DEL, EXISTS, SINTER, SUNION and
\* SDIFF, the first argument of the other commands, none for PING.
NamedKeys(r) ==
    IF Len(r.Array) < 2 \/ ToUpper(r.Array[1].Str) = Name.PING THEN {} ELSE KeysOf(r)

\* The commands C39 lists as read-only.
ReadOnlyNames ==
    {Name.PING, Name.GET, Name.EXISTS, Name.LLEN, Name.LINDEX, Name.LRANGE, Name.HGET,
     Name.HEXISTS, Name.HLEN, Name.HGETALL, Name.SISMEMBER, Name.SCARD, Name.SMEMBERS,
     Name.SRANDMEMBER, Name.SINTER, Name.SUNION, Name.SDIFF, Name.ZSCORE, Name.ZCARD,
     Name.ZCOUNT, Name.ZRANK, Name.ZREVRANK, Name.ZRANGE, Name.ZREVRANGE,
     Name.ZRANGEBYSCORE, Name.ZREVRANGEBYSCORE}

C39_WitnessWrite ==
    /\ IsRequest(req, {Name.HSET}) /\ reply = NewInteger(1)
    /\ \E k \in Keys \ KeysOf(req) : data[k] # NoEntry

\* C36: a command that passes validation returns a reply: its execution aborts
\* neither the process nor the connection, in any reachable keyspace.
C36_NoAbort ==
    [][Executes => (~crashed' /\ conn' = "open" /\ reply' # Nothing)]_vars

\* C36 for the commands other than GET, INCR and DECR.
C36_NoAbortButGet ==
    [][(Executes /\ ~IsRequest(req', {Name.GET, Name.INCR, Name.DECR})) =>
          (~crashed' /\ conn' = "open" /\ reply' # Nothing)]_vars

(***************************************************************************)
(* Connections that create or delete the same key at the same time, one    *)
(* Storage step at a time.                                                 *)
(***************************************************************************)
\* The keyspace after the requests reqs, sent one after the other to a new server.
RECURSIVE Built(_, _, _)
Built(reqs, d, h) ==
    IF reqs = <<>> THEN [d |-> d, h |-> h]
    ELSE Built(Tail(reqs), Run(Head(reqs), d, h).d, Run(Head(reqs), d, h).h)

\* The keyspaces the races start from: empty, or Main holding a value of one of
\* the five shapes.
Stored ==
    {<<Request(Name.SET, <<Main, <<"a">>>>)>>,
     <<Request(Name.LPUSH, <<Main, <<"a">>>>)>>,
     <<Request(Name.HSET, <<Main, <<"a">>, <<"1">>>>)>>,
     <<Request(Name.SADD, <<Main, <<"a">>, <<"1">>>>)>>,
     <<Request(Name.ZADD, <<Main, <<"1">>, <<"a">>>>)>>}

\* LPUSH on one connection and SADD on another, both on Main.
Creators ==
    {[c \in Conns |->
         IF c = 1 THEN <<ParseCommand(Request(Name.LPUSH, <<Main>> \o xs)).cmd>>
         ELSE IF c = 2 THEN <<ParseCommand(Request(Name.SADD, <<Main>> \o ys)).cmd>>
         ELSE <<>>] : xs \in ValArgs, ys \in ValArgs}

\* DEL on every connection; each names Main, alone or with another key.
Deleters ==
    [Conns -> {<<ParseCommand(Request(Name.DEL, ks)).cmd>> :
                  ks \in {<<Main>>} \cup {<<Main, k>> : k \in Others} \cup {<<k, Main>> : k \in Others}}]

InitRace ==
    /\ \E setup \in {<<>>} \cup Stored : \E progs \in (IF setup = <<>> THEN Creators ELSE Deleters) :
          /\ data = Built(setup, [k \in Keys |-> NoEntry], [id \in ObjIds |-> Free]).d
          /\ heap = Built(setup, [k \in Keys |-> NoEntry], [id \in ObjIds |-> Free]).h
          /\ thr = [c \in Conns |-> Idle(progs[c])]
    /\ crashed = FALSE
    /\ req = Nothing
    /\ reply = Nothing
    /\ conn = "open"
    /\ net = <<>>

\* LPush, first step: s.data.LoadOrStore(key, list.New()) and the type assertion.
LPushLoad(c) ==
    /\ Starts(c, {"LPush"})
    /\ LET t == thr[c]
           key == Running(t).key
           s == LoadOrStore(data, heap, key, ListObj(<<>>))
       IN  IF Shape(s.d, s.h, key) # "list"
           THEN Step(c, data, heap, Finish(t, NewError(WrongType)))
           ELSE Step(c, s.d, s.h, [t EXCEPT !.pc = "LPushLoop", !.ref = s.d[key].id, !.i = 1])

\* LPush, one round of the loop: lst.PushFront(val).
LPushLoop(c) ==
    /\ ~crashed
    /\ thr[c].pc = "LPushLoop"
    /\ LET t == thr[c]
           l == heap[t.ref].l
       IN  Step(c, data, [heap EXCEPT ![t.ref] = ListObj(<<Running(t).values[t.i]>> \o l)],
                [t EXCEPT !.i = t.i + 1,
                          !.pc = IF t.i = Len(Running(t).values) THEN "LPushLen" ELSE "LPushLoop"])

\* LPush, last step: return int64(lst.Len()).
LPushLen(c) ==
    /\ ~crashed
    /\ thr[c].pc = "LPushLen"
    /\ Step(c, data, heap, Finish(thr[c], NewInteger(Len(heap[thr[c].ref].l))))

\* Del, one round of the loop over keys: s.data.LoadAndDelete(key); the command
\* returns the count after the last round.
DelLoop(c) ==
    /\ Starts(c, {"Del"}) \/ (~crashed /\ thr[c].pc = "DelLoop")
    /\ LET t == thr[c]
           i == IF t.pc = "idle" THEN 1 ELSE t.i
           r == LoadAndDelete(data, Running(t).keys[i])
           n == IF r.loaded THEN t.n + 1 ELSE t.n
       IN  IF i = Len(Running(t).keys)
           THEN Step(c, r.d, heap, Finish(t, NewInteger(n)))
           ELSE Step(c, r.d, heap, [t EXCEPT !.pc = "DelLoop", !.i = i + 1, !.n = n])

NextRace ==
    \/ \E c \in Conns : LPushLoad(c)
    \/ \E c \in Conns : LPushLoop(c)
    \/ \E c \in Conns : LPushLen(c)
    \/ \E c \in Conns : SAddLoad(c)
    \/ \E c \in Conns : SAddLoop(c)
    \/ \E c \in Conns : DelLoop(c)

SpecRace == InitRace /\ [][NextRace]_vars

(***************************************************************************)
(* Properties of racing connections (SpecRace).                            *)
(***************************************************************************)
\* The log entries of the commands op.
Entries(op) == {e \in Log : e.cmd.op = op}

\* C37: when LPUSH k xs and SADD k ys race on the absent key k, exactly one of
\* them creates the key and succeeds and the other replies WRONGTYPE; once both
\* have replied, k holds the winner's collection with exactly the winner's
\* elements: the list of xs (last pushed first), or the set of ys.
C37_OneCreatorWins ==
    (Done /\ Ran({"LPush", "SAdd"})) =>
        \E p \in Entries("LPush") : \E a \in Entries("SAdd") :
            \/ /\ p.reply = NewInteger(Len(p.cmd.values))
               /\ a.reply = NewError(WrongType)
               /\ Shape(data, heap, Main) = "list"
               /\ Deref(data, heap, Main).l = Reverse(p.cmd.values)
            \/ /\ a.reply = NewInteger(Cardinality(Range(a.cmd.values)))
               /\ p.reply = NewError(WrongType)
               /\ Shape(data, heap, Main) = "set"
               /\ Deref(data, heap, Main).m = Range(a.cmd.values)

\* Both have replied; SADD created the key and LPUSH got WRONGTYPE.
C37_Witness ==
    /\ Done /\ Ran({"LPush", "SAdd"})
    /\ \E p \in Entries("LPush") : p.reply = NewError(WrongType)
    /\ Shape(data, heap, Main) = "set"

\* Both have replied; LPUSH created the key and SADD got WRONGTYPE.
C37_WitnessList ==
    /\ Done /\ Ran({"LPush", "SAdd"})
    /\ \E a \in Entries("SAdd") : a.reply = NewError(WrongType)
    /\ Shape(data, heap, Main) = "list"

\* The sum of the replies of connections cs.
RECURSIVE Removed(_)
Removed(cs) ==
    IF cs = {} THEN 0
    ELSE LET c == CHOOSE x \in cs : TRUE
         IN  thr[c].log[1].reply.Num + Removed(cs \ {c})

\* C38: when every connection sends DEL naming the same existing key, and
\* nothing recreates it, the replies sum to 1 and the key is absent.
C38_DeletedOnce ==
    (Done /\ Ran({"Del"})) =>
        /\ \A c \in Conns : Len(thr[c].log) = 1 /\ thr[c].log[1].reply.Type = Integer
        /\ Removed(Conns) = 1
        /\ \A k \in Keys : data[k] = NoEntry

\* All DELs have replied, and it is the last connection's that removed the key.
C38_Witness ==
    /\ Done /\ Ran({"Del"})
    /\ thr[NumConns].log[1].reply = NewInteger(1)
    /\ \A c \in Conns \ {NumConns} : thr[c].log[1].reply = NewInteger(0)

====
